---------------------------- MODULE Spec2Model ----------------------------
(***************************************************************************)
(* A model of the phone-number intelligence engine                         *)
(* (src/phone_intelligence.py, class PhoneIntelligence).                   *)
(*                                                                         *)
(* Python dictionaries are TLA+ functions with string keys (records), the  *)
(* empty dictionary is the function with the empty domain, Python lists    *)
(* are sequences and None is the string "None".  Every method of the class *)
(* is an operator of the same name.  What a signal source answers (an HTTP *)
(* reply, the value a placeholder lookup stands for, an exception raised   *)
(* inside the source) is an input, carried by a record named world.        *)
(***************************************************************************)
EXTENDS Integers, Sequences, FiniteSets, TLC

VARIABLES
    Config,   \* the API credentials (src/config.py), TRUE = a non-empty key
    pc,       \* where the call under analysis stands
    args,     \* the arguments of the call under analysis
    ret,      \* the value the call returned
    calls,    \* how often each signal source was invoked by the call
    session_state  \* st.session_state of the browser session (src/app.py)

vars == <<Config, pc, args, ret, calls, session_state>>

---------------------------------------------------------------------------
(* Python values                                                           *)

None == "None"

EmptyDict == [k \in {} |-> None]

\* dict.get(key, default)
GetOr(d, key, default) == IF key \in DOMAIN d THEN d[key] ELSE default

\* dict.update(other): the keys of other win
Update(d, other) == other @@ d

Max(a, b) == IF a >= b THEN a ELSE b

Min(a, b) == IF a <= b THEN a ELSE b

---------------------------------------------------------------------------
(* Bounds of the model                                                     *)

\* reputation scores range over -MaxReputation .. MaxReputation
MaxReputation == 100

\* breach lists hold at most this many entries
MaxBreaches == 2

---------------------------------------------------------------------------
(* Configuration (src/config.py)                                           *)

ConfigKeys == {"NUMVERIFY_API_KEY", "TWILIO_ACCOUNT_SID", "TWILIO_AUTH_TOKEN", "HIBP_API_KEY"}

\* every key empty: the environment sets none of them
NoKeys == [k \in ConfigKeys |-> FALSE]

\* no source invoked yet
NoCalls == EmptyDict

---------------------------------------------------------------------------
(* Risk scoring: _calculate_risk_score                                     *)

\* the scoring without the final cap at 100
RiskScoreUncapped(security_analysis, osint_data) ==
    LET s1 == 20
        s2 == IF GetOr(security_analysis, "is_spam_risk", FALSE) THEN s1 + 40 ELSE s1
        s3 == IF GetOr(security_analysis, "is_voip", FALSE) THEN s2 + 20 ELSE s2
        s4 == IF GetOr(osint_data, "breach_data", <<>>) # <<>> THEN s3 + 30 ELSE s3
        reputation == GetOr(security_analysis, "reputation_score", 50)
    IN  IF reputation < 30 THEN s4 + 20
        ELSE IF reputation > 70 THEN Max(0, s4 - 10)
        ELSE s4

\* the scoring with the reputation thresholds taken inclusively
RiskScoreInclusive(security_analysis, osint_data) ==
    LET s1 == 20
        s2 == IF GetOr(security_analysis, "is_spam_risk", FALSE) THEN s1 + 40 ELSE s1
        s3 == IF GetOr(security_analysis, "is_voip", FALSE) THEN s2 + 20 ELSE s2
        s4 == IF GetOr(osint_data, "breach_data", <<>>) # <<>> THEN s3 + 30 ELSE s3
        reputation == GetOr(security_analysis, "reputation_score", 50)
        s5 == IF reputation <= 30 THEN s4 + 20
              ELSE IF reputation >= 70 THEN Max(0, s4 - 10)
              ELSE s4
    IN  Min(100, s5)

\* the scoring that takes 30 off for a good reputation
RiskScoreLargerBonus(security_analysis, osint_data) ==
    LET s1 == 20
        s2 == IF GetOr(security_analysis, "is_spam_risk", FALSE) THEN s1 + 40 ELSE s1
        s3 == IF GetOr(security_analysis, "is_voip", FALSE) THEN s2 + 20 ELSE s2
        s4 == IF GetOr(osint_data, "breach_data", <<>>) # <<>> THEN s3 + 30 ELSE s3
        reputation == GetOr(security_analysis, "reputation_score", 50)
        s5 == IF reputation < 30 THEN s4 + 20
              ELSE IF reputation > 70 THEN Max(0, s4 - 30)
              ELSE s4
    IN  Min(100, s5)

_calculate_risk_score(security_analysis, osint_data) ==
    LET base_score == 20
        s2 == IF GetOr(security_analysis, "is_spam_risk", FALSE)
                THEN base_score + 40 ELSE base_score
        s3 == IF GetOr(security_analysis, "is_voip", FALSE) THEN s2 + 20 ELSE s2
        s4 == IF GetOr(osint_data, "breach_data", <<>>) # <<>> THEN s3 + 30 ELSE s3
        reputation == GetOr(security_analysis, "reputation_score", 50)
        s5 == IF reputation < 30 THEN s4 + 20
              ELSE IF reputation > 70 THEN Max(0, s4 - 10)
              ELSE s4
    IN  Min(100, s5)

\* The inputs of the scoring: the dictionaries _perform_security_analysis and
\* _perform_osint_enrichment return, {} after a failure of theirs.
RiskIndicators(spam, voip) ==
    (IF voip THEN <<"VoIP number">> ELSE <<>>)
        \o (IF spam THEN <<"Found in spam database">> ELSE <<>>)

SecurityAnalyses ==
    {EmptyDict} \cup
    {[is_spam_risk |-> s, is_voip |-> v, reputation_score |-> r,
      risk_indicators |-> RiskIndicators(s, v)] :
        s \in BOOLEAN, v \in BOOLEAN, r \in (0 - MaxReputation)..MaxReputation}

BreachLists == {[i \in 1..n |-> "breach"] : n \in 0..MaxBreaches}

OsintDatas == {EmptyDict} \cup {[breach_data |-> b] : b \in BreachLists}

InitRisk ==
    /\ Config = NoKeys
    /\ pc = "call"
    /\ \E sa \in SecurityAnalyses, od \in OsintDatas :
          args = [security_analysis |-> sa, osint_data |-> od]
    /\ ret = None
    /\ calls = NoCalls
    /\ session_state = EmptyDict

CalculateRiskScore ==
    /\ pc = "call"
    /\ ret' = _calculate_risk_score(args.security_analysis, args.osint_data)
    /\ pc' = "returned"
    /\ UNCHANGED <<Config, args, calls>>
    /\ UNCHANGED session_state

\* an exception inside the try block: the except branch answers 50
RiskCalculationError ==
    /\ pc = "call"
    /\ ret' = 50
    /\ pc' = "failed"
    /\ UNCHANGED <<Config, args, calls>>
    /\ UNCHANGED session_state

NextRisk == CalculateRiskScore \/ RiskCalculationError

SpecRisk == InitRisk /\ [][NextRisk]_vars

\* the signals the scoring reads, as the caller sees them
SpamSignal == GetOr(args.security_analysis, "is_spam_risk", FALSE)

VoipSignal == GetOr(args.security_analysis, "is_voip", FALSE)

BreachSignal == GetOr(args.osint_data, "breach_data", <<>>) # <<>>

ReputationSignal == GetOr(args.security_analysis, "reputation_score", 50)

\* no rule but the base applies
NoSignal ==
    /\ ~SpamSignal
    /\ ~VoipSignal
    /\ ~BreachSignal
    /\ ReputationSignal >= 30
    /\ ReputationSignal <= 70

\* C1: for every security_analysis and osint_data, both empty included, the
\* returned score is an integer in 0..100, and it is 20 when no signal is present.
C1_ScoreInRange ==
    pc = "returned" =>
        /\ ret \in 0..100
        /\ (NoSignal => ret = 20)

\* C1 witness: the all-empty input was scored, and scored 20
C1_Witness ==
    /\ pc = "returned"
    /\ args.security_analysis = EmptyDict
    /\ args.osint_data = EmptyDict
    /\ ret = 20

\* the reference additive model of the specification, section 4.4
ReferenceScore(spam, voip, breach, reputation) ==
    LET sum == 20 + (IF spam THEN 40 ELSE 0) + (IF voip THEN 20 ELSE 0)
                  + (IF breach THEN 30 ELSE 0)
        adjusted == IF reputation < 30 THEN sum + 20
                    ELSE IF reputation > 70 THEN Max(0, sum - 10)
                    ELSE sum
    IN  Min(100, adjusted)

\* C2: the returned score equals the reference additive model: 20, +40 spam,
\* +20 VoIP, +30 breach, +20 below reputation 30, -10 above 70, capped at 100.
C2_ScoreIsReference ==
    pc = "returned" =>
        ret = ReferenceScore(SpamSignal, VoipSignal, BreachSignal, ReputationSignal)

\* C2 witness: spam + VoIP + breach + reputation 20 was scored 100 (130 capped)
C2_Witness ==
    /\ pc = "returned"
    /\ SpamSignal /\ VoipSignal /\ BreachSignal
    /\ ReputationSignal = 20
    /\ ret = 100

---------------------------------------------------------------------------
(* Online status: the messaging apps and _determine_overall_status         *)

\* what a messaging-app lookup finds: the account is online, it is not, or
\* the lookup raises inside the source
AppAnswers == {"offline", "online", "raised"}

MessagingApps == <<"whatsapp", "telegram", "signal", "viber">>

_check_whatsapp_status(answer) ==
    IF answer = "raised" THEN EmptyDict
    ELSE [registered |-> FALSE, business_account |-> FALSE, last_seen |-> None,
          online |-> (answer = "online")]

_check_telegram_status(answer) ==
    IF answer = "raised" THEN EmptyDict
    ELSE [public_profile |-> FALSE, username |-> None, last_seen |-> None,
          online |-> (answer = "online")]

_check_signal_status(answer) ==
    IF answer = "raised" THEN EmptyDict
    ELSE [registered |-> FALSE, online |-> (answer = "online")]

_check_viber_status(answer) ==
    IF answer = "raised" THEN EmptyDict
    ELSE [public_account |-> FALSE, business_profile |-> FALSE,
          online |-> (answer = "online")]

\* the dictionary 'messaging_apps' of _check_messaging_app_status
MessagingStatus(world) ==
    [whatsapp |-> _check_whatsapp_status(world.whatsapp),
     telegram |-> _check_telegram_status(world.telegram),
     signal |-> _check_signal_status(world.signal),
     viber |-> _check_viber_status(world.viber)]

\* `status and status.get('online')`
AppOnline(app_data) == app_data # EmptyDict /\ GetOr(app_data, "online", FALSE)

\* a status that counts 'VoIP service active' as full evidence by itself
StatusBySignalIdentity(status_data) ==
    LET online_indicators == GetOr(status_data, "online_indicators", <<>>)
        messaging_apps == GetOr(status_data, "messaging_apps", EmptyDict)
    IN  IF Len(online_indicators) >= 2 THEN "Online"
        ELSE IF Len(online_indicators) = 1
            THEN (IF online_indicators[1] = "VoIP service active"
                    THEN "Online" ELSE "Recently Online")
        ELSE IF \E app \in DOMAIN messaging_apps : AppOnline(messaging_apps[app])
            THEN "Online via messaging"
        ELSE "Offline"

\* The except branch of the code ('Unknown') needs a status_data that is no
\* dictionary of this shape; no caller passes one.
_determine_overall_status(status_data) ==
    LET online_indicators == GetOr(status_data, "online_indicators", <<>>)
        messaging_apps == GetOr(status_data, "messaging_apps", EmptyDict)
    IN  IF Len(online_indicators) >= 2 THEN "Online"
        ELSE IF Len(online_indicators) = 1 THEN "Recently Online"
        ELSE IF messaging_apps # EmptyDict
                /\ \E app \in DOMAIN messaging_apps : AppOnline(messaging_apps[app])
            THEN "Online via messaging"
        ELSE "Offline"

\* the entries online_indicators can hold
Indicators ==
    {"whatsapp active", "telegram active", "signal active", "viber active",
     "VoIP service active"}

\* indicator lists hold at most this many entries
MaxIndicators == 3

IndicatorLists == UNION {[1..n -> Indicators] : n \in 0..MaxIndicators}

AppWorlds ==
    [whatsapp : AppAnswers, telegram : AppAnswers, signal : AppAnswers,
     viber : AppAnswers]

\* the status_data dictionaries: 'messaging_apps' is absent when
\* _check_messaging_app_status returned {}
StatusDatas ==
    {[online_indicators |-> ind] : ind \in IndicatorLists}
    \cup {[online_indicators |-> ind, messaging_apps |-> MessagingStatus(w)] :
            ind \in IndicatorLists, w \in AppWorlds}

InitStatus ==
    /\ Config = NoKeys
    /\ pc = "call"
    /\ \E sd \in StatusDatas : args = [status_data |-> sd]
    /\ ret = None
    /\ calls = NoCalls
    /\ session_state = EmptyDict

DetermineOverallStatus ==
    /\ pc = "call"
    /\ ret' = _determine_overall_status(args.status_data)
    /\ pc' = "returned"
    /\ UNCHANGED <<Config, args, calls>>
    /\ UNCHANGED session_state

NextStatus == DetermineOverallStatus

SpecStatus == InitStatus /\ [][NextStatus]_vars

IndicatorCount == Len(args.status_data.online_indicators)

AnyAppOnline ==
    /\ "messaging_apps" \in DOMAIN args.status_data
    /\ \E app \in DOMAIN args.status_data.messaging_apps :
          GetOr(args.status_data.messaging_apps[app], "online", FALSE)

\* C4: the overall status is decided by the number of online indicators and
\* the messaging apps' online flags alone: 2 or more indicators 'Online', one
\* 'Recently Online', none but an app online 'Online via messaging', otherwise
\* 'Offline'.
C4_StatusByCount ==
    pc = "returned" =>
        ret = (IF IndicatorCount >= 2 THEN "Online"
               ELSE IF IndicatorCount = 1 THEN "Recently Online"
               ELSE IF AnyAppOnline THEN "Online via messaging"
               ELSE "Offline")

\* C4 witness: no indicator, an app online, classified 'Online via messaging'
C4_Witness ==
    /\ pc = "returned"
    /\ IndicatorCount = 0
    /\ AnyAppOnline
    /\ ret = "Online via messaging"

---------------------------------------------------------------------------
(* The phonenumbers library, as far as PhoneIntelligence uses it.          *)
(* A phone-number text is a sequence of characters; a parsed PhoneNumber   *)
(* is a record of its country code, its national number as an integer and  *)
(* the count of leading zeros the integer lost.  The library's metadata is *)
(* cut down to four calling codes with two-digit national numbers.         *)

DigitChars == {"0", "1", "3", "4", "6", "9"}

DigitValue(c) ==
    CASE c = "0" -> 0 [] c = "1" -> 1 [] c = "2" -> 2 [] c = "3" -> 3
      [] c = "4" -> 4 [] c = "5" -> 5 [] c = "6" -> 6 [] c = "7" -> 7
      [] c = "8" -> 8 [] OTHER -> 9

DigitChar(v) ==
    CASE v = 0 -> "0" [] v = 1 -> "1" [] v = 2 -> "2" [] v = 3 -> "3"
      [] v = 4 -> "4" [] v = 5 -> "5" [] v = 6 -> "6" [] v = 7 -> "7"
      [] v = 8 -> "8" [] OTHER -> "9"

IsDigit(c) == c \in {"0", "1", "2", "3", "4", "5", "6", "7", "8", "9"}

RECURSIVE IntOf(_)
\* int(digits)
IntOf(digits) ==
    IF digits = <<>> THEN 0
    ELSE 10 * IntOf(SubSeq(digits, 1, Len(digits) - 1)) + DigitValue(digits[Len(digits)])

RECURSIVE StrOf(_)
\* str(n)
StrOf(n) == IF n < 10 THEN <<DigitChar(n)>> ELSE StrOf(n \div 10) \o <<DigitChar(n % 10)>>

StartsWith(s, prefix) ==
    Len(s) >= Len(prefix) /\ SubSeq(s, 1, Len(prefix)) = prefix

DropFirst(s, n) == SubSeq(s, n + 1, Len(s))

\* the metadata: calling codes, national prefixes, the first digits of valid
\* national numbers
CallingCodes == {1, 44, 61, 39}

RegionCallingCode(region) ==
    CASE region = "US" -> 1 [] region = "CA" -> 1 [] region = "GB" -> 44
      [] region = "AU" -> 61 [] OTHER -> 39

NationalPrefix(country_code) ==
    CASE country_code = 1 -> <<"1">>
      [] country_code = 44 -> <<"0">>
      [] country_code = 61 -> <<"0">>
      [] OTHER -> <<>>

LeadingDigits(country_code) ==
    CASE country_code = 1 -> {"3", "4", "6", "9"}
      [] country_code = 44 -> {"1", "3"}
      [] country_code = 61 -> {"3", "4"}
      [] country_code = 39 -> {"0", "3"}
      [] OTHER -> {}

\* the general pattern of a national significant number
MatchesNationalPattern(country_code, nsn) ==
    Len(nsn) = 2 /\ nsn[1] \in LeadingDigits(country_code)

\* the answer of a parse that raised NumberParseException
Raises == [raises |-> TRUE]

Raised(answer) == "raises" \in DOMAIN answer

\* the national prefix is stripped unless that spoils a number that matched,
\* and only when what is left has a possible length
StripNationalPrefix(country_code, nsn) ==
    LET prefix == NationalPrefix(country_code)
        stripped == DropFirst(nsn, Len(prefix))
    IN  IF prefix = <<>> \/ ~StartsWith(nsn, prefix) THEN nsn
        ELSE IF MatchesNationalPattern(country_code, nsn)
                /\ ~MatchesNationalPattern(country_code, stripped) THEN nsn
        ELSE IF Len(stripped) # 2 THEN nsn
        ELSE stripped

\* leading zeros of the national number, the last digit never counted
RECURSIVE LeadingZeros(_)
LeadingZeros(nsn) ==
    IF Len(nsn) > 1 /\ nsn[1] = "0" THEN 1 + LeadingZeros(DropFirst(nsn, 1)) ELSE 0

PhoneNumber(country_code, nsn) ==
    [country_code |-> country_code,
     national_number |-> IntOf(nsn),
     number_of_leading_zeros |-> LeadingZeros(nsn)]

\* phonenumbers.parse(text, region)
phonenumbers_parse(text, region) ==
    LET digits == SelectSeq(text, IsDigit)
        plus == text # <<>> /\ text[1] = "+"
        viable == /\ Len(digits) >= 2
                  /\ \A i \in 2..Len(text) : text[i] # "+"
        codes == {k \in 1..2 : Len(digits) >= k
                                /\ IntOf(SubSeq(digits, 1, k)) \in CallingCodes}
        finish(country_code, rest) ==
            LET nsn == StripNationalPrefix(country_code, rest)
            IN  IF Len(nsn) < 2 THEN Raises
                ELSE PhoneNumber(country_code, nsn)
    IN  IF ~viable THEN Raises
        ELSE IF plus THEN
            IF digits[1] = "0" \/ codes = {} THEN Raises
            ELSE LET k == CHOOSE k \in codes : \A j \in codes : k <= j
                 IN  finish(IntOf(SubSeq(digits, 1, k)), DropFirst(digits, k))
        ELSE IF region = None THEN Raises
        ELSE LET country_code == RegionCallingCode(region)
                 code == StrOf(country_code)
                 rest == DropFirst(digits, Len(code))
                 own_code == /\ StartsWith(digits, code)
                             /\ ~MatchesNationalPattern(country_code, digits)
                             /\ MatchesNationalPattern(country_code,
                                    StripNationalPrefix(country_code, rest))
             IN  finish(country_code, IF own_code THEN rest ELSE digits)

\* phonenumbers.national_significant_number(numobj)
NationalSignificantNumber(numobj) ==
    [i \in 1..numobj.number_of_leading_zeros |-> "0"] \o StrOf(numobj.national_number)

\* phonenumbers.is_valid_number(numobj)
is_valid_number(numobj) ==
    MatchesNationalPattern(numobj.country_code, NationalSignificantNumber(numobj))

\* phonenumbers.number_type(numobj)
number_type(numobj) ==
    LET nsn == NationalSignificantNumber(numobj)
    IN  IF ~is_valid_number(numobj) THEN "UNKNOWN"
        ELSE CASE nsn[2] \in {"0", "1"} -> "FIXED_LINE"
               [] nsn[2] \in {"3", "4"} -> "MOBILE"
               [] nsn[2] = "6" -> "VOIP"
               [] OTHER -> "TOLL_FREE"

\* phonenumbers.format_number(numobj, E164)
FormatE164(numobj) ==
    <<"+">> \o StrOf(numobj.country_code) \o NationalSignificantNumber(numobj)

\* phonenumbers.format_number(numobj, INTERNATIONAL)
FormatInternational(numobj) ==
    <<"+">> \o StrOf(numobj.country_code) \o <<" ">> \o NationalSignificantNumber(numobj)

\* phonenumbers.format_number(numobj, NATIONAL)
FormatNational(numobj) ==
    (IF numobj.country_code \in {44, 61} THEN NationalPrefix(numobj.country_code) ELSE <<>>)
        \o NationalSignificantNumber(numobj)

---------------------------------------------------------------------------
(* Number normalisation: _parse_phone_number                               *)

regions_to_try == <<"US", "GB", "CA", "AU", None>>

\* parsed_number when no region hint accepts the input
NoPhoneNumber == [none |-> TRUE]

\* what the library answers to one input under each region hint: Raises, or
\* the candidate and whether is_valid_number accepts it
Library(text) ==
    [region \in {regions_to_try[i] : i \in 1..Len(regions_to_try)} |->
        LET answer == phonenumbers_parse(text, region)
        IN  IF Raised(answer) THEN Raises
            ELSE [number |-> answer, valid |-> is_valid_number(answer)]]

Accepted(answer) == ~Raised(answer) /\ answer.valid

RECURSIVE TryRegionsKeepLast(_, _)
\* the loop without its return: every hint is tried, the last acceptance wins
TryRegionsKeepLast(library, i) ==
    IF i > Len(regions_to_try) THEN [parsed |-> NoPhoneNumber, tried |-> <<>>]
    ELSE LET region == regions_to_try[i]
             rest == TryRegionsKeepLast(library, i + 1)
         IN  [parsed |-> IF rest.parsed = NoPhoneNumber /\ Accepted(library[region])
                           THEN library[region].number ELSE rest.parsed,
              tried |-> <<region>> \o rest.tried]

RECURSIVE TryRegions(_, _)
\* the loop over regions_to_try from the i-th hint on: the number returned and
\* the hints handed to the library
TryRegions(library, i) ==
    IF i > Len(regions_to_try) THEN [parsed |-> NoPhoneNumber, tried |-> <<>>]
    ELSE LET region == regions_to_try[i]
         IN  IF Accepted(library[region])
                THEN [parsed |-> library[region].number, tried |-> <<region>>]
                ELSE LET rest == TryRegions(library, i + 1)
                     IN  [parsed |-> rest.parsed, tried |-> <<region>> \o rest.tried]

_parse_phone_number(library) == TryRegions(library, 1).parsed

RegionsTried(library) == TryRegions(library, 1).tried

\* candidates the library may answer with
MaxCandidates == 2

CandidateNumbers ==
    {[country_code |-> 1, national_number |-> 40 + n, number_of_leading_zeros |-> 0] :
        n \in 1..MaxCandidates}

LibraryAnswers ==
    {Raises} \cup [number : CandidateNumbers, valid : BOOLEAN]

InitParse ==
    /\ Config = NoKeys
    /\ pc = "call"
    /\ \E library \in [{"US", "GB", "CA", "AU", None} -> LibraryAnswers] :
          args = [library |-> library]
    /\ ret = NoPhoneNumber
    /\ calls = NoCalls
    /\ session_state = EmptyDict

ParsePhoneNumber ==
    /\ pc = "call"
    /\ ret' = _parse_phone_number(args.library)
    /\ calls' = [regions_tried |-> RegionsTried(args.library)]
    /\ pc' = "returned"
    /\ UNCHANGED <<Config, args>>
    /\ UNCHANGED session_state

NextParse == ParsePhoneNumber

SpecParse == InitParse /\ [][NextParse]_vars

\* the order of the hints the claim states
HintOrder == <<"US", "GB", "CA", "AU", "None">>

AcceptingHints == {i \in 1..5 : Accepted(args.library[HintOrder[i]])}

FirstAcceptingHint == CHOOSE i \in AcceptingHints : \A j \in AcceptingHints : i <= j

\* C8: the hints are tried in the order US, GB, CA, AU, no hint; the candidate
\* of the first hint that parses and validates is returned and no later hint
\* is tried; the result is None only when all five hints are rejected.
C8_FirstAcceptingHintWins ==
    pc = "returned" =>
        IF AcceptingHints = {}
        THEN ret = NoPhoneNumber /\ calls.regions_tried = HintOrder
        ELSE /\ ret = args.library[HintOrder[FirstAcceptingHint]].number
             /\ calls.regions_tried = SubSeq(HintOrder, 1, FirstAcceptingHint)

\* C8 witness: US raises, GB gives an invalid candidate, CA and AU both accept
\* different candidates; CA's candidate is returned and AU is never tried
C8_Witness ==
    /\ pc = "returned"
    /\ Raised(args.library["US"])
    /\ ~Raised(args.library["GB"]) /\ ~args.library["GB"].valid
    /\ Accepted(args.library["CA"])
    /\ Accepted(args.library["AU"])
    /\ args.library["CA"].number # args.library["AU"].number
    /\ ret = args.library["CA"].number
    /\ calls.regions_tried = <<"US", "GB", "CA">>

---------------------------------------------------------------------------
(* Formatting and re-normalisation: _extract_technical_details             *)

_get_line_type_description(type) ==
    CASE type = "MOBILE" -> "Mobile"
      [] type = "FIXED_LINE" -> "Landline"
      [] type = "FIXED_LINE_OR_MOBILE" -> "Fixed Line or Mobile"
      [] type = "TOLL_FREE" -> "Toll Free"
      [] type = "PREMIUM_RATE" -> "Premium Rate"
      [] type = "SHARED_COST" -> "Shared Cost"
      [] type = "VOIP" -> "VoIP"
      [] type = "PERSONAL_NUMBER" -> "Personal Number"
      [] type = "PAGER" -> "Pager"
      [] type = "UAN" -> "Universal Access Number"
      [] type = "VOICEMAIL" -> "Voicemail"
      [] OTHER -> "Unknown"

\* the details with the national format put where the E.164 format belongs
TechnicalDetailsNationalAsE164(parsed_number) ==
    [international_format |-> FormatInternational(parsed_number),
     national_format |-> FormatNational(parsed_number),
     e164_format |-> FormatNational(parsed_number),
     country_code |-> parsed_number.country_code,
     national_number |-> parsed_number.national_number,
     number_type |-> _get_line_type_description(number_type(parsed_number))]

_extract_technical_details(parsed_number) ==
    [international_format |-> FormatInternational(parsed_number),
     national_format |-> FormatNational(parsed_number),
     e164_format |-> FormatE164(parsed_number),
     country_code |-> parsed_number.country_code,
     national_number |-> parsed_number.national_number,
     number_type |-> _get_line_type_description(number_type(parsed_number))]

\* input texts hold at most this many digits
MaxDigits == 4

InputTexts ==
    {plus \o digits :
        plus \in {<<>>, <<"+">>},
        digits \in UNION {[1..n -> DigitChars] : n \in 0..MaxDigits}}

InitNorm ==
    /\ Config = NoKeys
    /\ pc = "call"
    /\ \E text \in InputTexts :
          args = [phone_input |-> text, library |-> Library(text)]
    /\ ret = NoPhoneNumber
    /\ calls = NoCalls
    /\ session_state = EmptyDict

\* the accepted number is formatted as E.164 and the text is normalised again
Renormalize ==
    /\ pc = "returned"
    /\ ret # NoPhoneNumber
    /\ LET e164 == _extract_technical_details(ret).e164_format
       IN  /\ args' = [phone_input |-> e164, library |-> Library(e164),
                       original |-> args.phone_input, first |-> ret]
           /\ ret' = _parse_phone_number(Library(e164))
           /\ calls' = [regions_tried |-> RegionsTried(Library(e164))]
    /\ pc' = "renormalized"
    /\ UNCHANGED Config
    /\ UNCHANGED session_state

NextNorm == ParsePhoneNumber \/ Renormalize

SpecNorm == InitNorm /\ [][NextNorm]_vars

\* C9: parsing the E.164 string formatted from a parsed number yields the
\* country code and the national number of the first parse.
C9_NormalizeIdempotent ==
    pc = "renormalized" =>
        /\ ret # NoPhoneNumber
        /\ ret.country_code = args.first.country_code
        /\ ret.national_number = args.first.national_number

\* C9 witness: a valid E.164 input whose national number starts with a zero
\* was normalised, formatted and normalised again to the same number
C9_Witness ==
    /\ pc = "renormalized"
    /\ args.original = <<"+", "3", "9", "0", "3">>
    /\ args.phone_input = args.original
    /\ args.first.national_number = 3
    /\ ret = args.first

---------------------------------------------------------------------------
(* The signal sources.  world names, for every source, what it answers     *)
(* during one analysis; DefaultWorld is what the code as shipped answers   *)
(* (every lookup is a placeholder but Numverify's HTTP request), and       *)
(* Alternatives the other answers a source can give: data a real lookup    *)
(* would find, or "raised", an exception inside the source.  The last      *)
(* entries are the try blocks of the orchestrating methods themselves.     *)

SocialPlatforms == <<"facebook", "twitter", "instagram", "linkedin", "tiktok">>

DefaultWorld ==
    [numverify |-> "no_data", twilio |-> "found", spam |-> "clean", hibp |-> "none",
     social_presence |-> "none",
     whatsapp |-> "offline", telegram |-> "offline", signal |-> "offline",
     viber |-> "offline",
     facebook |-> "quiet", twitter |-> "quiet", instagram |-> "quiet",
     linkedin |-> "quiet", tiktok |-> "quiet",
     carrier_status |-> "ok",
     skype |-> "offline", google_voice |-> "inactive", discord |-> "offline",
     zoom |-> "idle",
     google_my_business |-> "none", yelp_activity |-> "none",
     website_activity |-> "none", recent_reviews |-> "none",
     network_probe |-> "no_response",
     messaging_status |-> "ok", recent_social_activity |-> "ok", voip_services |-> "ok",
     basic_info |-> "ok", carrier_info |-> "ok", security_analysis |-> "ok",
     osint_enrichment |-> "ok", technical_details |-> "ok",
     network_intelligence |-> "ok", online_status |-> "ok", risk_score |-> "ok",
     report |-> "ok",
     clock |-> "t0"]

Alternatives(source) ==
    CASE source = "numverify" -> {"valid", "raised"}
      [] source \in {"spam"} -> {"listed", "raised"}
      [] source = "hibp" -> {"breached", "raised"}
      [] source = "social_presence" -> {"found", "raised"}
      [] source \in {"whatsapp", "telegram", "signal", "viber", "skype", "discord"} ->
            {"online", "raised"}
      [] source \in {"facebook", "twitter", "instagram", "linkedin", "tiktok"} ->
            {"recent", "recent_later", "raised"}
      [] source = "google_voice" -> {"active", "raised"}
      [] source = "zoom" -> {"in_meeting", "raised"}
      [] source = "clock" -> {"t1"}
      [] OTHER -> {"raised"}

\* a world differs from DefaultWorld in at most this many answers
MaxDeviations == 1

RECURSIVE WorldsWithin(_)
WorldsWithin(k) ==
    IF k = 0 THEN {DefaultWorld}
    ELSE LET fewer == WorldsWithin(k - 1)
         IN  fewer \cup
             UNION {{[w EXCEPT ![source] = answer] : answer \in Alternatives(source)} :
                        w \in fewer, source \in DOMAIN DefaultWorld}

Worlds == WorldsWithin(MaxDeviations)

\* the sources of the presence estimate
PresenceSources ==
    {"whatsapp", "telegram", "signal", "viber",
     "facebook", "twitter", "instagram", "linkedin", "tiktok",
     "carrier_status", "skype", "google_voice", "discord", "zoom",
     "google_my_business", "yelp_activity", "website_activity", "recent_reviews",
     "network_probe"}

---------------------------------------------------------------------------
(* Online status detection: _detect_online_status and its sources          *)

\* the messaging check that names the online apps in connection_status only
CheckMessagingWithoutIndicators(world) ==
    IF world.messaging_status = "raised" THEN EmptyDict
    ELSE IF \E i \in 1..Len(MessagingApps) : AppOnline(MessagingStatus(world)[MessagingApps[i]])
        THEN [connection_status |-> "Online via messaging",
              messaging_apps |-> MessagingStatus(world)]
    ELSE [messaging_apps |-> MessagingStatus(world)]

_check_messaging_app_status(world) ==
    IF world.messaging_status = "raised" THEN EmptyDict
    ELSE LET messaging_status == MessagingStatus(world)
             online_apps == SelectSeq(MessagingApps,
                                LAMBDA app : AppOnline(messaging_status[app]))
         IN  IF online_apps # <<>>
                THEN [connection_status |-> "Online via messaging",
                      online_indicators |->
                          [i \in 1..Len(online_apps) |-> online_apps[i] \o " active"],
                      messaging_apps |-> messaging_status]
                ELSE [messaging_apps |-> messaging_status]

_check_platform_activity(answer) ==
    IF answer = "raised" THEN EmptyDict
    ELSE [recent |-> answer \in {"recent", "recent_later"},
          timestamp |-> (CASE answer = "recent" -> "t1"
                           [] answer = "recent_later" -> "t2"
                           [] OTHER -> None),
          activity_type |-> None]

\* timestamp > last_activity_time, for the timestamps "t1" < "t2"
MoreRecent(timestamp, last) == timestamp = "t2" /\ last = "t1"

RECURSIVE SocialActivityLoop(_, _, _)
\* the loop over platforms, from the i-th on
SocialActivityLoop(world, i, activity_data) ==
    IF i > Len(SocialPlatforms) THEN activity_data
    ELSE LET platform == SocialPlatforms[i]
             platform_activity == _check_platform_activity(world[platform])
             seen == [activity_data EXCEPT
                        !.platforms_active = Append(@, platform),
                        !.recent_activity = TRUE,
                        !.activity_score = @ + 1]
             timed == IF platform_activity.timestamp # None
                         /\ (activity_data.last_activity_time = None
                             \/ MoreRecent(platform_activity.timestamp,
                                           activity_data.last_activity_time))
                        THEN [seen EXCEPT !.last_activity_time = platform_activity.timestamp]
                        ELSE seen
         IN  SocialActivityLoop(world, i + 1,
                IF platform_activity # EmptyDict /\ platform_activity.recent
                    THEN timed ELSE activity_data)

_check_recent_social_activity(world) ==
    IF world.recent_social_activity = "raised" THEN EmptyDict
    ELSE SocialActivityLoop(world, 1,
            [recent_activity |-> FALSE, last_activity_time |-> None,
             platforms_active |-> <<>>, activity_score |-> 0])

_check_carrier_network_status(world) ==
    IF world.carrier_status = "raised" THEN EmptyDict
    ELSE [carrier_status |-> "Unknown", network_available |-> TRUE,
          roaming_status |-> "Unknown"]

_check_skype_status(answer) ==
    IF answer = "raised" THEN EmptyDict
    ELSE [online |-> (answer = "online"), username |-> None]

_check_google_voice_status(answer) ==
    IF answer = "raised" THEN EmptyDict ELSE [active |-> (answer = "active")]

_check_discord_voice_status(answer) ==
    IF answer = "raised" THEN EmptyDict
    ELSE [online |-> (answer = "online"), servers |-> <<>>]

_check_zoom_status(answer) ==
    IF answer = "raised" THEN EmptyDict
    ELSE [in_meeting |-> (answer = "in_meeting"), public_meetings |-> <<>>]

\* the VoIP check with the exception of one service ending the whole check
CheckVoipServicesUnguarded(world) ==
    IF world.voip_services = "raised"
        \/ \E service \in {"skype", "google_voice", "discord", "zoom"} :
                world[service] = "raised"
    THEN EmptyDict
    ELSE [skype |-> _check_skype_status(world.skype),
          google_voice |-> _check_google_voice_status(world.google_voice),
          discord |-> _check_discord_voice_status(world.discord),
          zoom |-> _check_zoom_status(world.zoom),
          active |-> world.skype = "online" \/ world.discord = "online"]

_check_voip_services(world) ==
    IF world.voip_services = "raised" THEN EmptyDict
    ELSE LET voip_data == [skype |-> _check_skype_status(world.skype),
                           google_voice |-> _check_google_voice_status(world.google_voice),
                           discord |-> _check_discord_voice_status(world.discord),
                           zoom |-> _check_zoom_status(world.zoom)]
         IN  [skype |-> voip_data.skype, google_voice |-> voip_data.google_voice,
              discord |-> voip_data.discord, zoom |-> voip_data.zoom,
              active |-> \E service \in DOMAIN voip_data :
                            /\ voip_data[service] # EmptyDict
                            /\ GetOr(voip_data[service], "online", FALSE)]

_check_business_activity(world) ==
    [google_my_business |->
        IF world.google_my_business = "raised" THEN EmptyDict
        ELSE [listed |-> FALSE, recent_updates |-> FALSE],
     yelp_activity |->
        IF world.yelp_activity = "raised" THEN EmptyDict
        ELSE [business_profile |-> FALSE, recent_activity |-> FALSE],
     website_activity |->
        IF world.website_activity = "raised" THEN EmptyDict
        ELSE [websites_found |-> <<>>, recent_updates |-> FALSE],
     recent_reviews |->
        IF world.recent_reviews = "raised" THEN EmptyDict
        ELSE [recent_reviews |-> FALSE, platforms |-> <<>>]]

_perform_network_probe(world) ==
    IF world.network_probe = "raised" THEN EmptyDict
    ELSE [ping_response |-> FALSE, port_scan_results |-> EmptyDict,
          network_latency |-> None, connection_quality |-> "Unknown"]

\* Method 1: the messaging answer is merged into online_status
NoteMessaging(online_status, messaging_status) ==
    IF messaging_status # EmptyDict
        THEN Update(online_status, messaging_status) ELSE online_status

\* Method 2: social activity is filed under device_activity
NoteSocialActivity(online_status, social_activity) ==
    IF social_activity = EmptyDict THEN online_status
    ELSE IF social_activity.recent_activity
        THEN [online_status EXCEPT
                !.device_activity = Update(@, [social_media |-> social_activity]),
                !.network_status = "Recently Online",
                !.last_seen = social_activity.last_activity_time]
    ELSE [online_status EXCEPT
            !.device_activity = Update(@, [social_media |-> social_activity])]

\* Method 3: the carrier answer is merged into online_status
NoteCarrierStatus(online_status, carrier_status) ==
    IF carrier_status # EmptyDict
        THEN Update(online_status, carrier_status) ELSE online_status

\* Method 4: VoIP services are filed under device_activity
NoteVoip(online_status, voip_status) ==
    IF voip_status = EmptyDict THEN online_status
    ELSE IF voip_status.active
        THEN [online_status EXCEPT
                !.device_activity = Update(@, [voip |-> voip_status]),
                !.online_indicators = Append(@, "VoIP service active")]
    ELSE [online_status EXCEPT
            !.device_activity = Update(@, [voip |-> voip_status])]

\* Method 5: business activity is filed under device_activity
NoteBusiness(online_status, business_activity) ==
    [online_status EXCEPT
        !.device_activity = Update(@, [business |-> business_activity])]

\* Method 6: the probe answer is merged into online_status
NoteProbe(online_status, network_probe) ==
    IF network_probe # EmptyDict
        THEN Update(online_status, network_probe) ELSE online_status

\* the dictionary online_status as it stands when the overall status is
\* determined (line 463)
CollectedStatus(world) ==
    NoteProbe(
      NoteBusiness(
        NoteVoip(
          NoteCarrierStatus(
            NoteSocialActivity(
              NoteMessaging(
                [network_status |-> "Unknown", connection_status |-> "Unknown",
                 last_seen |-> None, online_indicators |-> <<>>,
                 real_time_ip |-> None, connection_quality |-> "Unknown",
                 device_activity |-> EmptyDict, network_changes |-> <<>>],
                _check_messaging_app_status(world)),
              _check_recent_social_activity(world)),
            _check_carrier_network_status(world)),
          _check_voip_services(world)),
        _check_business_activity(world)),
      _perform_network_probe(world))

\* the conclusion that lets a status 'Recently Online' of the methods stand
ConcludeKeepingRecent(online_status, world) ==
    Update(online_status,
        [network_status |->
            IF online_status.network_status = "Recently Online"
                THEN "Recently Online"
                ELSE _determine_overall_status(online_status),
         check_timestamp |-> world.clock])

\* the conclusion that also takes the time of the check as the time the
\* number was last seen
ConcludeStampingLastSeen(online_status, world) ==
    Update(online_status,
        [network_status |-> _determine_overall_status(online_status),
         last_seen |-> world.clock,
         check_timestamp |-> world.clock])

\* line 463: the overall status replaces whatever the methods wrote, and the
\* time of the check is added
Conclude(online_status, world) ==
    Update(online_status,
        [network_status |-> _determine_overall_status(online_status),
         check_timestamp |-> world.clock])

\* the detection with an exception of a source handed on to the except
\* branch of _detect_online_status
DetectOnlineStatusStrict(world) ==
    IF world.online_status = "raised"
        \/ \E source \in PresenceSources : world[source] = "raised"
    THEN [network_status |-> "Error", connection_status |-> "Unknown",
          error |-> "exception"]
    ELSE Conclude(CollectedStatus(world), world)

\* the detection without line 463: the status the methods left stands
DetectOnlineStatusUnconcluded(world) ==
    IF world.online_status = "raised"
    THEN [network_status |-> "Error", connection_status |-> "Unknown",
          error |-> "exception"]
    ELSE Update(CollectedStatus(world), [check_timestamp |-> world.clock])

_detect_online_status(world) ==
    IF world.online_status = "raised"
    THEN [network_status |-> "Error", connection_status |-> "Unknown",
          error |-> "exception"]
    ELSE Conclude(CollectedStatus(world), world)

---------------------------------------------------------------------------
(* The detection on its own, over combinations of presence answers         *)

\* the answers _detect_online_status depends on
PresenceKeys ==
    PresenceSources
        \cup {"messaging_status", "recent_social_activity", "voip_services",
              "online_status"}

\* a presence world differs from DefaultWorld in at most this many answers
MaxPresenceDeviations == 2

RECURSIVE PresenceWorldsWithin(_)
PresenceWorldsWithin(k) ==
    IF k = 0 THEN {DefaultWorld}
    ELSE LET fewer == PresenceWorldsWithin(k - 1)
         IN  fewer \cup
             UNION {{[w EXCEPT ![source] = answer] : answer \in Alternatives(source)} :
                        w \in fewer, source \in PresenceKeys}

PresenceWorlds == PresenceWorldsWithin(MaxPresenceDeviations)

InitDetect ==
    /\ Config = NoKeys
    /\ pc = "idle"
    /\ args = EmptyDict
    /\ ret = EmptyDict
    /\ calls = NoCalls
    /\ session_state = EmptyDict

\* one call of _detect_online_status; collected is online_status as it stands
\* when line 463 is reached, {} when the except branch is taken before
DetectOnlineStatus ==
    /\ pc = "idle"
    /\ \E world \in PresenceWorlds :
          /\ args' = [world |-> world]
          /\ ret' = _detect_online_status(world)
          /\ calls' = [collected |-> IF world.online_status = "raised"
                                        THEN EmptyDict ELSE CollectedStatus(world)]
    /\ pc' = "returned"
    /\ UNCHANGED Config
    /\ UNCHANGED session_state

\* the caller merges the answer (line 398); the next detection may start
NextDetection ==
    /\ pc = "returned"
    /\ pc' = "idle"
    /\ args' = EmptyDict
    /\ ret' = EmptyDict
    /\ calls' = NoCalls
    /\ UNCHANGED Config
    /\ UNCHANGED session_state

NextDetect == DetectOnlineStatus \/ NextDetection

SpecDetect == InitDetect /\ [][NextDetect]_vars

---------------------------------------------------------------------------
(* What the library knows about a number: carrier, place, time zone        *)

\* phonenumbers.region_code_for_number(numobj)
RegionOf(numobj) ==
    LET nsn == NationalSignificantNumber(numobj)
    IN  CASE numobj.country_code = 1 -> (IF nsn[1] \in {"3", "4"} THEN "US" ELSE "CA")
          [] numobj.country_code = 44 -> "GB"
          [] numobj.country_code = 61 -> "AU"
          [] OTHER -> "IT"

\* carrier.name_for_number(numobj, "en"): known for mobile numbers outside
\* the North American plan, "" otherwise
name_for_number(numobj) ==
    IF number_type(numobj) # "MOBILE" THEN ""
    ELSE CASE numobj.country_code = 44 -> "Vodafone"
           [] numobj.country_code = 61 -> "Telstra"
           [] numobj.country_code = 39 -> "TIM"
           [] OTHER -> ""

\* geocoder.description_for_number(numobj, "en"): "" for toll-free numbers
description_for_number(numobj) ==
    IF number_type(numobj) = "TOLL_FREE" THEN ""
    ELSE CASE RegionOf(numobj) = "US" -> "United States"
           [] RegionOf(numobj) = "CA" -> "Canada"
           [] RegionOf(numobj) = "GB" -> "United Kingdom"
           [] RegionOf(numobj) = "AU" -> "Australia"
           [] OTHER -> "Italy"

\* timezone.time_zones_for_number(numobj)
time_zones_for_number(numobj) ==
    CASE RegionOf(numobj) = "US" -> <<"America/New_York", "America/Chicago">>
      [] RegionOf(numobj) = "CA" -> <<"America/Toronto">>
      [] RegionOf(numobj) = "GB" -> <<"Europe/London">>
      [] RegionOf(numobj) = "AU" -> <<"Australia/Sydney">>
      [] OTHER -> <<"Europe/Rome">>

\* `value or "Unknown"`
OrUnknown(value) == IF value = "" THEN "Unknown" ELSE value

---------------------------------------------------------------------------
(* The steps of analyze_phone_number                                       *)

_extract_basic_info(parsed_number, world) ==
    IF world.basic_info = "raised" THEN EmptyDict
    ELSE LET timezones == time_zones_for_number(parsed_number)
         IN  [country |-> OrUnknown(description_for_number(parsed_number)),
              region |-> OrUnknown(description_for_number(parsed_number)),
              carrier |-> OrUnknown(name_for_number(parsed_number)),
              line_type |-> _get_line_type_description(number_type(parsed_number)),
              timezone |-> IF timezones # <<>> THEN timezones[1] ELSE "Unknown",
              country_code |-> parsed_number.country_code]

\* None is returned as {}: the caller tests `if numverify_data`
_query_numverify_api(parsed_number, world) ==
    IF ~Config.NUMVERIFY_API_KEY THEN EmptyDict
    ELSE IF world.numverify = "valid"
        THEN [carrier |-> "Numverify carrier", line_type |-> "mobile",
              location |-> "Numverify location"]
    ELSE EmptyDict

\* the carrier step that asks Numverify whether or not a key is set
GetCarrierInfoUnkeyed(parsed_number, world) ==
    IF world.carrier_info = "raised" THEN EmptyDict
    ELSE LET carrier_info ==
                [name |-> OrUnknown(name_for_number(parsed_number)),
                 type |-> _get_line_type_description(number_type(parsed_number)),
                 country |-> description_for_number(parsed_number),
                 mobile_country_code |-> StrOf(parsed_number.country_code),
                 mobile_network_code |-> "Unknown"]
         IN  IF world.numverify = "valid"
                THEN Update(carrier_info,
                            [carrier |-> "Numverify carrier", line_type |-> "mobile",
                             location |-> "Numverify location"])
                ELSE carrier_info

_get_carrier_info(parsed_number, world) ==
    IF world.carrier_info = "raised" THEN EmptyDict
    ELSE LET carrier_info ==
                [name |-> OrUnknown(name_for_number(parsed_number)),
                 type |-> _get_line_type_description(number_type(parsed_number)),
                 country |-> description_for_number(parsed_number),
                 mobile_country_code |-> StrOf(parsed_number.country_code),
                 mobile_network_code |-> "Unknown"]
             numverify_data == _query_numverify_api(parsed_number, world)
         IN  IF Config.NUMVERIFY_API_KEY /\ numverify_data # EmptyDict
                THEN Update(carrier_info, numverify_data)
                ELSE carrier_info

\* the Twilio lookup that reports its spam verdict under the key of the
\* analysis
TwilioLookupFlaggingSpam(parsed_number, world) ==
    IF ~(Config.TWILIO_ACCOUNT_SID /\ Config.TWILIO_AUTH_TOKEN) THEN EmptyDict
    ELSE IF world.twilio = "raised" THEN EmptyDict
    ELSE [reputation_score |-> 60, is_spam_risk |-> TRUE]

\* None is returned as {}: the caller tests `if twilio_data`
_query_twilio_lookup(parsed_number, world) ==
    IF ~(Config.TWILIO_ACCOUNT_SID /\ Config.TWILIO_AUTH_TOKEN) THEN EmptyDict
    ELSE IF world.twilio = "raised" THEN EmptyDict
    ELSE [reputation_score |-> 60, spam_risk |-> FALSE]

_check_spam_databases(world) == world.spam = "listed"

\* the security analysis in which a spam hit sets the flag and the indicator
\* and leaves the reputation alone
SecurityAnalysisSpamFlagOnly(parsed_number, world) ==
    IF world.security_analysis = "raised" THEN EmptyDict
    ELSE LET voip == number_type(parsed_number) = "VOIP"
             spam == _check_spam_databases(world)
         IN  Update([is_spam_risk |-> spam, is_voip |-> voip, reputation_score |-> 50,
                     risk_indicators |->
                        (IF voip THEN <<"VoIP number">> ELSE <<>>)
                        \o (IF spam THEN <<"Found in spam database">> ELSE <<>>)],
                    [key \in DOMAIN _query_twilio_lookup(parsed_number, world)
                              \ {"is_spam_risk"} |->
                        _query_twilio_lookup(parsed_number, world)[key]])

\* the security analysis in which a spam hit leaves a reputation that Twilio
\* supplied as it is
SecurityAnalysisFirstWins(parsed_number, world) ==
    IF world.security_analysis = "raised" THEN EmptyDict
    ELSE LET voip == number_type(parsed_number) = "VOIP"
             twilio_data == _query_twilio_lookup(parsed_number, world)
             listed == _check_spam_databases(world)
             merged == Update([is_spam_risk |-> listed, is_voip |-> voip,
                               reputation_score |-> IF listed THEN 20 ELSE 50,
                               risk_indicators |->
                                   (IF voip THEN <<"VoIP number">> ELSE <<>>)
                                   \o (IF listed THEN <<"Found in spam database">>
                                                  ELSE <<>>)],
                              twilio_data)
         IN  merged

_perform_security_analysis(parsed_number, world) ==
    IF world.security_analysis = "raised" THEN EmptyDict
    ELSE LET analysis == [is_spam_risk |-> FALSE, is_voip |-> FALSE,
                          reputation_score |-> 50, risk_indicators |-> <<>>]
             a1 == IF number_type(parsed_number) = "VOIP"
                     THEN [analysis EXCEPT !.is_voip = TRUE,
                                           !.risk_indicators = Append(@, "VoIP number")]
                     ELSE analysis
             twilio_data == _query_twilio_lookup(parsed_number, world)
             a2 == IF Config.TWILIO_ACCOUNT_SID /\ Config.TWILIO_AUTH_TOKEN
                        /\ twilio_data # EmptyDict
                     THEN Update(a1, twilio_data) ELSE a1
         IN  IF _check_spam_databases(world)
                THEN [a2 EXCEPT !.is_spam_risk = TRUE,
                                !.risk_indicators = Append(@, "Found in spam database"),
                                !.reputation_score = Max(0, @ - 30)]
                ELSE a2

_check_hibp_breaches(world) ==
    IF ~Config.HIBP_API_KEY THEN <<>>
    ELSE IF world.hibp = "breached" THEN <<"breach">>
    ELSE <<>>

_check_social_media_presence(world) ==
    IF world.social_presence = "found" THEN [profiles |-> <<"profile">>] ELSE EmptyDict

_detect_network_technology(parsed_number) ==
    CASE number_type(parsed_number) = "MOBILE" -> "4G/5G (estimated)"
      [] number_type(parsed_number) = "VOIP" -> "Internet/VoIP"
      [] OTHER -> "Unknown"

_get_carrier_network_info(parsed_number) ==
    [carrier_name |-> OrUnknown(name_for_number(parsed_number)),
     network_type |-> _get_line_type_description(number_type(parsed_number)),
     country |-> OrUnknown(description_for_number(parsed_number)),
     mcc |-> StrOf(parsed_number.country_code),
     mnc |-> "Unknown",
     network_technology |-> _detect_network_technology(parsed_number),
     roaming_partners |-> <<"International roaming available">>,
     network_coverage |-> "Coverage in " \o description_for_number(parsed_number)]

_get_country_mobile_ranges(country) ==
    CASE country = "United States" -> <<"10.0.0.0/8", "172.16.0.0/12">>
      [] country = "United Kingdom" -> <<"192.168.0.0/16">>
      [] country = "Canada" -> <<"10.0.0.0/8">>
      [] OTHER -> <<>>

_get_carrier_ip_ranges(parsed_number) ==
    LET carrier_name == name_for_number(parsed_number)
    IN  CASE carrier_name = "Verizon" -> <<"74.192.0.0/10", "108.160.0.0/11">>
          [] carrier_name = "AT&T" -> <<"12.0.0.0/8", "135.0.0.0/8">>
          [] carrier_name = "T-Mobile" -> <<"208.54.0.0/16", "66.94.0.0/16">>
          [] carrier_name = "Sprint" -> <<"72.52.0.0/15", "173.199.0.0/16">>
          [] OTHER -> _get_country_mobile_ranges(description_for_number(parsed_number))

_assess_network_security(parsed_number) ==
    LET security_assessment ==
            [encryption_support |-> "Unknown", network_security_level |-> "Standard",
             vulnerability_indicators |-> <<>>, security_score |-> 50,
             security_features |-> <<>>]
        typed ==
            CASE number_type(parsed_number) = "VOIP" ->
                    [security_assessment EXCEPT
                        !.vulnerability_indicators =
                            Append(@, "VoIP - potential for spoofing"),
                        !.security_score = @ - 10]
              [] number_type(parsed_number) = "MOBILE" ->
                    [security_assessment EXCEPT
                        !.security_features = Append(@, "Mobile network encryption"),
                        !.security_score = @ + 10]
              [] OTHER -> security_assessment
        rated ==
            IF name_for_number(parsed_number) # ""
                THEN Update(typed,
                        [encryption_support |-> "Standard",
                         security_features |-> <<"Network encryption", "Authentication">>,
                         security_score |-> 60])
                ELSE typed
    IN  [rated EXCEPT !.security_score = Max(0, Min(100, @))]

_get_network_intelligence(parsed_number, world) ==
    IF world.network_intelligence = "raised" THEN EmptyDict
    ELSE LET network_data ==
                [carrier_network_info |-> _get_carrier_network_info(parsed_number),
                 potential_ip_ranges |-> _get_carrier_ip_ranges(parsed_number),
                 network_status |-> "Offline", online_indicators |-> <<>>,
                 network_security |-> EmptyDict, real_time_ip |-> None,
                 connection_status |-> "Unknown", last_seen |-> None]
             detected == Update(network_data, _detect_online_status(world))
         IN  [detected EXCEPT !.network_security = _assess_network_security(parsed_number)]

_get_digital_footprint ==
    [search_engines |-> [google_results |-> 0, bing_results |-> 0, duckduckgo_results |-> 0],
     public_records |-> [found |-> FALSE, records |-> <<>>],
     business_listings |-> [found |-> FALSE, listings |-> <<>>],
     online_directories |-> [found |-> FALSE, directories |-> <<>>],
     data_brokers |-> [found |-> FALSE, brokers |-> <<>>],
     reverse_lookup_results |-> [found |-> FALSE, results |-> <<>>]]

_find_associated_emails ==
    [found_emails |-> <<>>, confidence_scores |-> EmptyDict, sources |-> EmptyDict,
     verification_status |-> EmptyDict]

_find_associated_websites ==
    [business_websites |-> <<>>, personal_websites |-> <<>>, social_profiles |-> <<>>,
     e_commerce_profiles |-> <<>>, professional_profiles |-> <<>>,
     confidence_scores |-> EmptyDict]

_find_social_media_accounts == EmptyDict

_perform_osint_enrichment(parsed_number, world) ==
    IF world.osint_enrichment = "raised" THEN EmptyDict
    ELSE LET osint_data ==
                [breach_data |-> <<>>, social_media_presence |-> EmptyDict,
                 additional_intel |-> EmptyDict,
                 network_intelligence |-> _get_network_intelligence(parsed_number, world),
                 digital_footprint |-> _get_digital_footprint,
                 associated_emails |-> _find_associated_emails,
                 websites |-> _find_associated_websites,
                 social_accounts |-> _find_social_media_accounts]
             breached == IF Config.HIBP_API_KEY /\ _check_hibp_breaches(world) # <<>>
                            THEN [osint_data EXCEPT !.breach_data = _check_hibp_breaches(world)]
                            ELSE osint_data
             social_data == _check_social_media_presence(world)
         IN  IF social_data # EmptyDict
                THEN [breached EXCEPT !.social_media_presence = social_data]
                ELSE breached

\* _extract_technical_details inside its try block
TechnicalDetails(parsed_number, world) ==
    IF world.technical_details = "raised" THEN EmptyDict
    ELSE _extract_technical_details(parsed_number)


---------------------------------------------------------------------------
(* analyze_phone_number                                                    *)

\* _calculate_risk_score inside its try block: after an exception the
\* score is 50 (line 281)
RiskScore(security_analysis, osint_data, world) ==
    IF world.risk_score = "raised" THEN 50
    ELSE _calculate_risk_score(security_analysis, osint_data)

\* lines 32 to 66: the steps in turn, the score, the report
CompileResults(phone_input, parsed_number, world) ==
    LET basic_info == _extract_basic_info(parsed_number, world)
        security_analysis == _perform_security_analysis(parsed_number, world)
        osint_data == _perform_osint_enrichment(parsed_number, world)
    IN  Update(Update([timestamp |-> world.clock, input_number |-> phone_input,
                       risk_score |-> RiskScore(security_analysis, osint_data, world)],
                      basic_info),
               [carrier_info |-> _get_carrier_info(parsed_number, world),
                security_analysis |-> security_analysis,
                osint_data |-> osint_data,
                technical_details |-> TechnicalDetails(parsed_number, world),
                network_intelligence |-> _get_network_intelligence(parsed_number, world)])

\* the report with the score taken before the enrichment has answered
CompileResultsScoreFirst(phone_input, parsed_number, world) ==
    [CompileResults(phone_input, parsed_number, world) EXCEPT
        !.risk_score =
            RiskScore(_perform_security_analysis(parsed_number, world), EmptyDict, world)]

\* the analysis with a fault of the compilation noted in the report itself
AnalyzeNotingError(phone_input, parsed_number, world) ==
    IF parsed_number = NoPhoneNumber
        THEN [error |-> "Invalid phone number format"]
    ELSE IF world.report = "raised"
        THEN [timestamp |-> world.clock, input_number |-> phone_input,
              error |-> "Analysis failed: exception"]
    ELSE CompileResults(phone_input, parsed_number, world)

\* the analysis reporting the score taken before the enrichment
AnalyzeScoreFirst(phone_input, parsed_number, world) ==
    IF parsed_number = NoPhoneNumber
        THEN [error |-> "Invalid phone number format"]
    ELSE IF world.report = "raised"
        THEN [error |-> "Analysis failed: exception"]
    ELSE CompileResultsScoreFirst(phone_input, parsed_number, world)

\* the analysis with the exception of a lookup reaching the except of line 68
AnalyzeSourcesUnguarded(phone_input, parsed_number, world) ==
    IF parsed_number = NoPhoneNumber
        THEN [error |-> "Invalid phone number format"]
    ELSE IF world.report = "raised"
            \/ \E source \in PresenceSources
                        \cup {"numverify", "twilio", "spam", "hibp", "social_presence"} :
                    world[source] = "raised"
        THEN [error |-> "Analysis failed: exception"]
    ELSE CompileResults(phone_input, parsed_number, world)

\* the analysis with an exception of the scoring reaching the except of
\* line 68
AnalyzeScoringFaultAborts(phone_input, parsed_number, world) ==
    IF parsed_number = NoPhoneNumber
        THEN [error |-> "Invalid phone number format"]
    ELSE IF world.report = "raised" \/ world.risk_score = "raised"
        THEN [error |-> "Analysis failed: exception"]
    ELSE CompileResults(phone_input, parsed_number, world)

\* the analysis on an object that keeps the score of its previous report
AnalyzeKeepingLastScore(phone_input, parsed_number, world) ==
    IF parsed_number = NoPhoneNumber
        THEN [error |-> "Invalid phone number format"]
    ELSE IF world.report = "raised"
        THEN [error |-> "Analysis failed: exception"]
    ELSE IF "other" \in DOMAIN ret /\ "risk_score" \in DOMAIN ret.other
        THEN [CompileResults(phone_input, parsed_number, world) EXCEPT
                !.risk_score = ret.other.risk_score]
    ELSE CompileResults(phone_input, parsed_number, world)

\* lines 26 to 70 after the parse of line 28
AnalyzeParsed(phone_input, parsed_number, world) ==
    IF parsed_number = NoPhoneNumber
        THEN [error |-> "Invalid phone number format"]
    ELSE IF world.report = "raised"
        THEN [error |-> "Analysis failed: exception"]
    ELSE CompileResults(phone_input, parsed_number, world)

analyze_phone_number(phone_input, world) ==
    AnalyzeParsed(phone_input, _parse_phone_number(Library(phone_input)), world)

\* the sources whose answers an analysis may ask for
Sources ==
    {"numverify", "twilio", "spam", "hibp", "social_presence"} \cup PresenceSources

\* the presence sources one run of _detect_online_status asks
DetectInvokes(world) ==
    IF world.online_status = "raised" THEN {}
    ELSE (IF world.messaging_status = "raised" THEN {}
            ELSE {MessagingApps[i] : i \in 1..Len(MessagingApps)})
         \cup (IF world.recent_social_activity = "raised" THEN {}
                 ELSE {SocialPlatforms[i] : i \in 1..Len(SocialPlatforms)})
         \cup {"carrier_status"}
         \cup (IF world.voip_services = "raised" THEN {}
                 ELSE {"skype", "google_voice", "discord", "zoom"})
         \cup {"google_my_business", "yelp_activity", "website_activity",
               "recent_reviews", "network_probe"}

\* how often _get_network_intelligence runs _detect_online_status in one
\* analysis: inside the enrichment (line 205) and for the report (line 48)
DetectRuns(world) ==
    IF world.network_intelligence = "raised" THEN 0
    ELSE (IF world.osint_enrichment = "raised" THEN 0 ELSE 1) + 1

\* how often each source is asked in one analysis of an accepted number
Invoked(world) ==
    [source \in Sources |->
        CASE source = "numverify" ->
                IF world.carrier_info # "raised" /\ Config.NUMVERIFY_API_KEY THEN 1 ELSE 0
          [] source = "twilio" ->
                IF world.security_analysis # "raised"
                    /\ Config.TWILIO_ACCOUNT_SID /\ Config.TWILIO_AUTH_TOKEN THEN 1 ELSE 0
          [] source = "spam" ->
                IF world.security_analysis # "raised" THEN 1 ELSE 0
          [] source = "hibp" ->
                IF world.osint_enrichment # "raised" /\ Config.HIBP_API_KEY THEN 1 ELSE 0
          [] source = "social_presence" ->
                IF world.osint_enrichment # "raised" THEN 1 ELSE 0
          [] OTHER ->
                IF source \in DetectInvokes(world) THEN DetectRuns(world) ELSE 0]

NoneInvoked == [source \in Sources |-> 0]

\* every lookup runs, whatever the parse answered
SourcesInvokedUnchecked(parsed_number, world) == Invoked(world)

\* how often each source is asked in one call of analyze_phone_number: the
\* return of line 30 comes before every lookup
SourcesInvoked(parsed_number, world) ==
    IF parsed_number = NoPhoneNumber THEN NoneInvoked ELSE Invoked(world)

\* the providers whose lookup logged an error in one call of
\* analyze_phone_number: a lookup logs in its except block, which a lookup
\* that returns for want of a key does not reach
ProviderErrorsLogged(parsed_number, world) ==
    IF parsed_number = NoPhoneNumber THEN {}
    ELSE {provider \in {"numverify", "twilio", "hibp"} :
            /\ world[provider] = "raised"
            /\ SourcesInvoked(parsed_number, world)[provider] >= 1}

\* the texts handed to the analysis: a VoIP number in international form, a
\* mobile number the second hint accepts, a text no hint accepts, a text on
\* which every hint raises
PhoneInputs ==
    {<<"+", "1", "-", "4", "6">>, <<"0", "1", "3">>, <<"0", "0">>, <<"+">>}

\* which of the keys the environment sets is not fixed
Init ==
    /\ Config \in [ConfigKeys -> BOOLEAN]
    /\ pc = "idle"
    /\ args = EmptyDict
    /\ ret = EmptyDict
    /\ calls = NoCalls
    /\ session_state = EmptyDict

\* the analysis that drops the Numverify key once it has used it
AnalyzeDroppingKey ==
    /\ pc = "idle"
    /\ \E phone_input \in PhoneInputs, world \in Worlds :
          /\ args' = [phone_input |-> phone_input, world |-> world]
          /\ ret' = analyze_phone_number(phone_input, world)
          /\ calls' = [regions_tried |-> RegionsTried(Library(phone_input)),
                       invoked |-> SourcesInvoked(
                                      _parse_phone_number(Library(phone_input)), world),
                       logged |-> ProviderErrorsLogged(
                                      _parse_phone_number(Library(phone_input)), world)]
          /\ Config' = IF _parse_phone_number(Library(phone_input)) = NoPhoneNumber
                          THEN Config
                          ELSE [Config EXCEPT !.NUMVERIFY_API_KEY = FALSE]
    /\ pc' = "returned"
    /\ UNCHANGED session_state

Analyze ==
    /\ pc = "idle"
    /\ \E phone_input \in PhoneInputs, world \in Worlds :
          /\ args' = [phone_input |-> phone_input, world |-> world]
          /\ ret' = analyze_phone_number(phone_input, world)
          /\ calls' = [regions_tried |-> RegionsTried(Library(phone_input)),
                       invoked |-> SourcesInvoked(
                                      _parse_phone_number(Library(phone_input)), world),
                       logged |-> ProviderErrorsLogged(
                                      _parse_phone_number(Library(phone_input)), world)]
    /\ pc' = "returned"
    /\ UNCHANGED Config
    /\ UNCHANGED session_state

\* the caller takes the result; the next analysis may start
NextRequest ==
    /\ pc = "returned"
    /\ pc' = "idle"
    /\ args' = EmptyDict
    /\ ret' = EmptyDict
    /\ calls' = NoCalls
    /\ UNCHANGED Config
    /\ UNCHANGED session_state

\* a key is set only from a non-empty text; the Twilio pair only together
save_api_config(numverify_key, twilio_sid, twilio_token, hibp_key) ==
    [NUMVERIFY_API_KEY |-> Config.NUMVERIFY_API_KEY \/ numverify_key,
     TWILIO_ACCOUNT_SID |-> Config.TWILIO_ACCOUNT_SID \/ (twilio_sid /\ twilio_token),
     TWILIO_AUTH_TOKEN |-> Config.TWILIO_AUTH_TOKEN \/ (twilio_sid /\ twilio_token),
     HIBP_API_KEY |-> Config.HIBP_API_KEY \/ hibp_key]

SaveApiConfig ==
    /\ pc = "idle"
    /\ \E numverify_key, twilio_sid, twilio_token, hibp_key \in BOOLEAN :
          Config' = save_api_config(numverify_key, twilio_sid, twilio_token, hibp_key)
    /\ UNCHANGED <<pc, args, ret, calls>>
    /\ UNCHANGED session_state

Next == Analyze \/ NextRequest \/ SaveApiConfig

Spec == Init /\ [][Next]_vars

---------------------------------------------------------------------------
(* Analyses of one number on one PhoneIntelligence object, compared        *)

\* every key set
AllKeys == [k \in ConfigKeys |-> TRUE]

\* the readings of the clock
Clocks == {DefaultWorld.clock} \cup Alternatives("clock")

\* the number analysed twice: the mobile number
ComparedInputs == {<<"0", "1", "3">>}

\* the keys are all unset or all set, and stay as they are
InitTwoRuns ==
    /\ Config \in {NoKeys, AllKeys}
    /\ pc = "idle"
    /\ args = EmptyDict
    /\ ret = EmptyDict
    /\ calls = NoCalls
    /\ session_state = EmptyDict

\* the first call on the object: nothing was analysed before it
FirstRun ==
    /\ pc = "idle"
    /\ \E phone_input \in ComparedInputs, world \in Worlds :
          /\ args' = [phone_input |-> phone_input, world |-> world, varied |-> "nothing"]
          /\ ret' = [first |-> analyze_phone_number(phone_input, world)]
          /\ calls' = [regions_tried |-> RegionsTried(Library(phone_input)),
                       invoked |-> SourcesInvoked(
                                      _parse_phone_number(Library(phone_input)), world),
                       logged |-> ProviderErrorsLogged(
                                      _parse_phone_number(Library(phone_input)), world)]
    /\ pc' = "first"
    /\ UNCHANGED Config
    /\ UNCHANGED session_state

\* the same number again, one source that answered now raising
SecondRunSourceFails ==
    /\ pc = "first"
    /\ \E source \in Sources :
          /\ args.world[source] # "raised"
          /\ args' = [args EXCEPT !.varied = source]
          /\ ret' = [first |-> ret.first,
                     second |-> analyze_phone_number(args.phone_input,
                                    [args.world EXCEPT ![source] = "raised"])]
    /\ pc' = "second"
    /\ UNCHANGED <<Config, calls>>
    /\ UNCHANGED session_state

\* the same number again at another time, every source answering as before
SecondRunLater ==
    /\ pc = "first"
    /\ \E clock \in Clocks \ {args.world.clock} :
          /\ args' = [args EXCEPT !.varied = "clock"]
          /\ ret' = [first |-> ret.first,
                     second |-> analyze_phone_number(args.phone_input,
                                    [args.world EXCEPT !.clock = clock])]
    /\ pc' = "second"
    /\ UNCHANGED <<Config, calls>>
    /\ UNCHANGED session_state

\* another number is analysed on the object in between
OtherRun ==
    /\ pc = "first"
    /\ \E phone_input \in PhoneInputs \ {args.phone_input} :
          ret' = [first |-> ret.first,
                  other |-> analyze_phone_number(phone_input, args.world)]
    /\ pc' = "other"
    /\ UNCHANGED <<Config, args, calls>>
    /\ UNCHANGED session_state

\* the same number again after the other one, nothing else changed
SecondRunAfterOther ==
    /\ pc = "other"
    /\ args' = [args EXCEPT !.varied = "history"]
    /\ ret' = [first |-> ret.first,
               other |-> ret.other,
               second |-> analyze_phone_number(args.phone_input, args.world)]
    /\ pc' = "second"
    /\ UNCHANGED <<Config, calls>>
    /\ UNCHANGED session_state

\* the caller drops the results
NextComparison ==
    /\ pc = "second"
    /\ pc' = "idle"
    /\ args' = EmptyDict
    /\ ret' = EmptyDict
    /\ calls' = NoCalls
    /\ UNCHANGED Config
    /\ UNCHANGED session_state

NextTwoRuns ==
    \/ FirstRun
    \/ SecondRunSourceFails
    \/ SecondRunLater
    \/ OtherRun
    \/ SecondRunAfterOther
    \/ NextComparison

SpecTwoRuns == InitTwoRuns /\ [][NextTwoRuns]_vars



---------------------------------------------------------------------------
(* The browser session in single-number mode: single_number_analysis       *)
(* (src/app.py).  One step is one run of the script after a click.         *)

\* current_results is None or a report, and falsy or truthy accordingly
\* (line 235); None is written as the empty dictionary here, a report never
\* being empty
NoResults == EmptyDict

\* the quick examples of line 181
Examples == {"+1-555-123-4567", "+44 20 7946 0958", "+49 30 12345678", "+81 3-1234-5678"}

\* what the text box holds at a click: a text of PhoneInputs or nothing
SessionInputs == PhoneInputs \cup {<<>>}

\* the sources answer as shipped; the compilation of the report may fail
SessionWorlds == {DefaultWorld, [DefaultWorld EXCEPT !.report = "raised"]}

\* the history holds at most this many analyses
MaxHistory == 3

\* lines 214 to 220
HistoryEntry(phone_input, results, world) ==
    [timestamp |-> world.clock,
     phone_number |-> phone_input,
     risk_score |-> GetOr(results, "risk_score", 0),
     country |-> GetOr(results, "country", "Unknown"),
     results |-> results]

\* the run that counts the analysis before it looks at the result
SingleNumberCountingEveryClick(session, click, results) ==
    CASE click.button = "clear" -> [session EXCEPT !.current_results = NoResults]
      [] click.button = "example" -> Update(session, [phone_input |-> click.example])
      [] click.button = "analyze" /\ click.phone_input # <<>> ->
            IF "error" \in DOMAIN results
                THEN [session EXCEPT !.analysis_count = @ + 1]
                ELSE [session EXCEPT
                        !.current_results = results,
                        !.analysis_history =
                            Append(@, HistoryEntry(click.phone_input, results, click.world)),
                        !.analysis_count = @ + 1]
      [] OTHER -> session

\* the run that stores the result before it looks at it
SingleNumberStoringErrors(session, click, results) ==
    CASE click.button = "clear" -> [session EXCEPT !.current_results = NoResults]
      [] click.button = "example" -> Update(session, [phone_input |-> click.example])
      [] click.button = "analyze" /\ click.phone_input # <<>> ->
            IF "error" \in DOMAIN results
                THEN [session EXCEPT !.current_results = results]
                ELSE [session EXCEPT
                        !.current_results = results,
                        !.analysis_history =
                            Append(@, HistoryEntry(click.phone_input, results, click.world)),
                        !.analysis_count = @ + 1]
      [] OTHER -> session

\* lines 155 to 233 for a session whose keys exist: the session state after
\* the run that the click starts; results is what analyze_phone_number
\* answers in this run
single_number_analysis(session, click, results) ==
    CASE click.button = "clear" -> [session EXCEPT !.current_results = NoResults]
      [] click.button = "example" -> Update(session, [phone_input |-> click.example])
      [] click.button = "analyze" /\ click.phone_input # <<>> ->
            IF "error" \in DOMAIN results
                THEN session
                ELSE [session EXCEPT
                        !.current_results = results,
                        !.analysis_history =
                            Append(@, HistoryEntry(click.phone_input, results, click.world)),
                        !.analysis_count = @ + 1]
      [] OTHER -> session

\* the page has been loaded once in single-number mode: lines 109-110 and
\* 155-158 have created the keys
InitSession ==
    /\ Config = NoKeys
    /\ pc = "idle"
    /\ args = EmptyDict
    /\ ret = EmptyDict
    /\ calls = NoCalls
    /\ session_state = [analysis_count |-> 0, current_results |-> NoResults,
                        analysis_history |-> <<>>]

\* a click on Analyze; with an empty text box no analysis runs
AnalyzeClick ==
    /\ Len(session_state.analysis_history) < MaxHistory
    /\ \E phone_input \in SessionInputs, world \in SessionWorlds :
          /\ args' = [button |-> "analyze", phone_input |-> phone_input, world |-> world]
          /\ ret' = IF phone_input = <<>> THEN EmptyDict
                    ELSE analyze_phone_number(phone_input, world)
    /\ session_state' = single_number_analysis(session_state, args', ret')
    /\ UNCHANGED <<Config, pc, calls>>

\* a click on Clear
ClearClick ==
    /\ args' = [button |-> "clear"]
    /\ ret' = EmptyDict
    /\ session_state' = single_number_analysis(session_state, args', ret')
    /\ UNCHANGED <<Config, pc, calls>>

\* a click on one of the quick examples
ExampleClick ==
    /\ \E example \in Examples : args' = [button |-> "example", example |-> example]
    /\ ret' = EmptyDict
    /\ session_state' = single_number_analysis(session_state, args', ret')
    /\ UNCHANGED <<Config, pc, calls>>

NextSession == AnalyzeClick \/ ClearClick \/ ExampleClick

SpecSession == InitSession /\ [][NextSession]_vars

---------------------------------------------------------------------------
(* The browser session in the real-time monitor: real_time_monitor         *)

\* monitored_number is None or the text that was entered; None is written as
\* the empty text here, which line 361 treats alike
NoMonitoredNumber == <<>>

\* the answers of the sources during a monitoring session: as shipped, at
\* one of two times, or with the compilation of the report failing
MonitorWorlds == SessionWorlds \cup {[DefaultWorld EXCEPT !.clock = "t1"]}

\* session_state.get('monitoring_active', False)
MonitoringActive(session) == GetOr(session, "monitoring_active", FALSE)

\* session_state.get('monitored_number')
MonitoredNumber(session) == GetOr(session, "monitored_number", NoMonitoredNumber)

\* Start that begins to monitor before it looks at the result
RealTimeMonitorStartingAnyway(session, click, results) ==
    CASE click.button = "start" /\ click.monitor_phone # <<>> ->
            Update(session, [monitoring_active |-> TRUE,
                             monitored_number |-> click.monitor_phone,
                             monitor_results |-> results])
      [] click.button = "stop" ->
            Update(session, [monitoring_active |-> FALSE,
                             monitored_number |-> NoMonitoredNumber])
      [] click.button = "refresh" /\ results # EmptyDict ->
            Update(session, [monitor_results |-> results])
      [] OTHER -> session

\* lines 316 to 366: the session state after the run that the click starts;
\* results is what analyze_phone_number answers in this run, {} if it is
\* not called
real_time_monitor(session, click, results) ==
    CASE click.button = "start" /\ click.monitor_phone # <<>> ->
            IF "error" \notin DOMAIN results
                THEN Update(session, [monitoring_active |-> TRUE,
                                      monitored_number |-> click.monitor_phone,
                                      monitor_results |-> results])
                ELSE session
      [] click.button = "stop" ->
            Update(session, [monitoring_active |-> FALSE,
                             monitored_number |-> NoMonitoredNumber])
      [] click.button = "refresh" /\ results # EmptyDict ->
            Update(session, [monitor_results |-> results])
      [] OTHER -> session

\* the page has been loaded once in monitor mode: lines 109-110 have created
\* the count, and no key of the monitor exists
InitMonitor ==
    /\ Config = NoKeys
    /\ pc = "idle"
    /\ args = EmptyDict
    /\ ret = EmptyDict
    /\ calls = NoCalls
    /\ session_state = [analysis_count |-> 0]

\* a click on Start Monitoring
StartClick ==
    /\ \E monitor_phone \in SessionInputs, world \in MonitorWorlds :
          /\ args' = [button |-> "start", monitor_phone |-> monitor_phone, world |-> world]
          /\ ret' = IF monitor_phone = <<>> THEN EmptyDict
                    ELSE analyze_phone_number(monitor_phone, world)
    /\ session_state' = real_time_monitor(session_state, args', ret')
    /\ UNCHANGED <<Config, pc, calls>>

\* a click on Stop Monitoring
StopClick ==
    /\ args' = [button |-> "stop"]
    /\ ret' = EmptyDict
    /\ session_state' = real_time_monitor(session_state, args', ret')
    /\ UNCHANGED <<Config, pc, calls>>

\* a click on Refresh Data, a button that exists while monitoring is active
\* (line 353); the monitored number is analysed again if there is one
RefreshClick ==
    /\ MonitoringActive(session_state)
    /\ \E world \in MonitorWorlds :
          /\ args' = [button |-> "refresh", world |-> world]
          /\ ret' = IF MonitoredNumber(session_state) = <<>> THEN EmptyDict
                    ELSE analyze_phone_number(MonitoredNumber(session_state), world)
    /\ session_state' = real_time_monitor(session_state, args', ret')
    /\ UNCHANGED <<Config, pc, calls>>

NextMonitor == StartClick \/ StopClick \/ RefreshClick

SpecMonitor == InitMonitor /\ [][NextMonitor]_vars

---------------------------------------------------------------------------
(* Claims about the analysis                                               *)

\* analyze_phone_number has returned a report
ReturnedReport == pc = "returned" /\ "error" \notin DOMAIN ret

\* the report states a network status
StatusReported ==
    ReturnedReport /\ "network_status" \in DOMAIN ret.network_intelligence

NetworkStatus == ret.network_intelligence.network_status

\* the rules of the score in the order the scoring evaluates them
RuleOrder == <<"base", "spam", "VoIP", "breach", "reputation">>

\* the score after one rule
ApplyRule(rule, score, security_analysis, osint_data) ==
    CASE rule = "base" -> 20
      [] rule = "spam" ->
            IF GetOr(security_analysis, "is_spam_risk", FALSE) THEN score + 40 ELSE score
      [] rule = "VoIP" ->
            IF GetOr(security_analysis, "is_voip", FALSE) THEN score + 20 ELSE score
      [] rule = "breach" ->
            IF GetOr(osint_data, "breach_data", <<>>) # <<>> THEN score + 30 ELSE score
      [] rule = "reputation" ->
            IF GetOr(security_analysis, "reputation_score", 50) < 30 THEN score + 20
            ELSE IF GetOr(security_analysis, "reputation_score", 50) > 70
                THEN Max(0, score - 10)
            ELSE score

RECURSIVE ScoreAfterRules(_, _, _)
\* the score after the first n rules of RuleOrder
ScoreAfterRules(n, security_analysis, osint_data) ==
    IF n = 0 THEN 0
    ELSE ApplyRule(RuleOrder[n],
                   ScoreAfterRules(n - 1, security_analysis, osint_data),
                   security_analysis, osint_data)

\* C3 as stated: the report of an analysis carries a contributingFactors
\* sequence next to the score.
C3_ReportHasContributingFactors ==
    ReturnedReport => "contributingFactors" \in DOMAIN ret

\* C3 amended: the scoring produces the integer score only; the report carries
\* as risk_score the result of the rules base, spam, VoIP, breach, reputation
\* applied in this order to its own security_analysis and osint_data, capped
\* at 100 (50 when the scoring itself raised), and carries no
\* contributingFactors.
C3_ScoreOnlyInRuleOrder ==
    ReturnedReport =>
        /\ "contributingFactors" \notin DOMAIN ret
        /\ ret.risk_score =
              IF args.world.risk_score = "raised" THEN 50
              ELSE Min(100, ScoreAfterRules(Len(RuleOrder), ret.security_analysis,
                                            ret.osint_data))

\* C3 witness: a report whose enrichment found a breach, scored 20 + 30
C3_Witness ==
    /\ ReturnedReport
    /\ GetOr(ret.osint_data, "breach_data", <<>>) # <<>>
    /\ ~GetOr(ret.security_analysis, "is_voip", FALSE)
    /\ ret.risk_score = 50

\* a presence source raised inside its lookup
PresenceFault(world) == \E source \in PresenceSources : world[source] = "raised"

NoProvider ==
    /\ Config = NoKeys
    /\ \A source \in PresenceSources \cup {"spam"} :
          args.world[source] = DefaultWorld[source]

\* no step of the analysis raised
NoStepFault ==
    \A step \in DOMAIN DefaultWorld \ (Sources \cup {"clock"}) : args.world[step] = "ok"

\* C6 as stated: without providers the report says 'Unknown' and scores 20.
C6_NoProviderUnknownAndBase ==
    StatusReported /\ NoProvider => NetworkStatus = "Unknown" /\ ret.risk_score = 20

\* C6 amended: with every key empty, no probe with data, nothing in the spam
\* check and no step raising, the report says 'Offline', and scores 20, or 40
\* when the library classifies the number as VoIP.
C6_NoProviderOfflineAndBase ==
    ReturnedReport /\ NoProvider /\ NoStepFault =>
        /\ StatusReported
        /\ NetworkStatus = "Offline"
        /\ ret.risk_score = IF ret.line_type = "VoIP" THEN 40 ELSE 20

\* C6 witness: a VoIP number without providers: 'Offline', scored 40
C6_Witness ==
    /\ ReturnedReport /\ NoProvider /\ NoStepFault
    /\ ret.line_type = "VoIP"
    /\ NetworkStatus = "Offline"
    /\ ret.risk_score = 40

\* no region hint yields a number the library accepts
NoHintAccepts(text) ==
    \A i \in 1..Len(regions_to_try) : ~Accepted(Library(text)[regions_to_try[i]])

\* C7: an input no hint accepts returns the error 'Invalid phone number
\* format'; no source has been asked and no score is in the result.
C7_InvalidShortCircuits ==
    pc = "returned" /\ NoHintAccepts(args.phone_input) =>
        /\ DOMAIN ret = {"error"}
        /\ ret.error = "Invalid phone number format"
        /\ \A source \in Sources : calls.invoked[source] = 0

\* C7 witness: every key set, all five hints tried, none accepted
C7_Witness ==
    /\ pc = "returned"
    /\ NoHintAccepts(args.phone_input)
    /\ \A key \in ConfigKeys : Config[key]
    /\ Len(calls.regions_tried) = Len(regions_to_try)
    /\ ret.error = "Invalid phone number format"

\* the keys every report has
ReportKeys ==
    {"timestamp", "input_number", "risk_score", "carrier_info", "security_analysis",
     "osint_data", "technical_details", "network_intelligence"}

\* C10: what analyze_phone_number returns has either the one key 'error', or
\* the keys of a report and no key 'error'.
C10_ErrorOrReport ==
    pc = "returned" =>
        \/ DOMAIN ret = {"error"}
        \/ "error" \notin DOMAIN ret /\ ReportKeys \subseteq DOMAIN ret

\* C10 witness: the compilation raised for an accepted number, and the result
\* is the error alone
C10_Witness ==
    /\ pc = "returned"
    /\ ~NoHintAccepts(args.phone_input)
    /\ args.world.report = "raised"
    /\ DOMAIN ret = {"error"}
    /\ ret.error = "Analysis failed: exception"


\* the fields _extract_basic_info spreads into the report
BasicInfoKeys ==
    {"country", "region", "carrier", "line_type", "timezone", "country_code"}

\* C11: every report has the same fields, those of a failed step included.
C11_SameFieldsInEveryReport ==
    ReturnedReport => DOMAIN ret = ReportKeys \cup BasicInfoKeys


\* what one presence source left in the network intelligence
PresenceEntry(network_intelligence, source) ==
    LET device_activity == GetOr(network_intelligence, "device_activity", EmptyDict)
    IN  CASE source \in {"whatsapp", "telegram", "signal", "viber"} ->
                [entry |-> GetOr(GetOr(network_intelligence, "messaging_apps", EmptyDict),
                                 source, EmptyDict)]
          [] source \in {"skype", "google_voice", "discord", "zoom"} ->
                [entry |-> GetOr(GetOr(device_activity, "voip", EmptyDict),
                                 source, EmptyDict)]
          [] source \in {"google_my_business", "yelp_activity", "website_activity",
                         "recent_reviews"} ->
                [entry |-> GetOr(GetOr(device_activity, "business", EmptyDict),
                                 source, EmptyDict)]
          [] source = "carrier_status" ->
                [carrier_status |-> GetOr(network_intelligence, "carrier_status", "absent")]
          [] source = "network_probe" ->
                [probed |-> "ping_response" \in DOMAIN network_intelligence]
          [] OTHER ->
                [active |-> \E i \in 1..Len(GetOr(GetOr(device_activity, "social_media",
                                                        EmptyDict),
                                                  "platforms_active", <<>>)) :
                                device_activity.social_media.platforms_active[i] = source]

\* the parts of a report that the given source does not own
OthersView(report, source) ==
    LET security_analysis == report.security_analysis
        osint_data == report.osint_data
    IN  [basic |-> [key \in BasicInfoKeys \cap DOMAIN report |-> report[key]],
         technical_details |-> report.technical_details,
         carrier_info |-> IF source = "numverify" THEN EmptyDict ELSE report.carrier_info,
         security_analysis |->
            CASE source = "twilio" ->
                    [key \in DOMAIN security_analysis \ {"reputation_score", "spam_risk"} |->
                        security_analysis[key]]
              [] source = "spam" ->
                    [key \in DOMAIN security_analysis \cap {"is_voip", "spam_risk"} |->
                        security_analysis[key]]
              [] OTHER -> security_analysis,
         risk_score |-> IF source \in {"twilio", "spam", "hibp"} THEN 0
                        ELSE report.risk_score,
         osint_data |->
            [key \in DOMAIN osint_data \
                        ((IF source = "hibp" THEN {"breach_data"} ELSE {})
                         \cup (IF source = "social_presence"
                                 THEN {"social_media_presence"} ELSE {})
                         \cup {"network_intelligence"}) |-> osint_data[key]],
         network_intelligence |->
            IF source \in PresenceSources THEN EmptyDict ELSE report.network_intelligence,
         presence |->
            [other \in PresenceSources \ {source} |->
                <<PresenceEntry(report.network_intelligence, other),
                  PresenceEntry(GetOr(osint_data, "network_intelligence", EmptyDict),
                                other)>>]]

\* both analyses of the number ended with a report
BothReported ==
    pc = "second" /\ "error" \notin DOMAIN ret.first /\ "error" \notin DOMAIN ret.second

\* C12: of two analyses of one number that differ only in one source raising
\* in the second, the second reports every field that the source does not own
\* as the first does.
C12_OtherSourcesKeepTheirFields ==
    pc = "second" /\ args.varied \in Sources /\ "error" \notin DOMAIN ret.first
    => /\ "error" \notin DOMAIN ret.second
       /\ OthersView(ret.second, args.varied) = OthersView(ret.first, args.varied)

\* C12 witness: Skype answered in the first analysis and raised in the
\* second, whose report has lost the Skype entry and kept the Discord entry
C12_Witness ==
    /\ BothReported
    /\ args.varied = "skype"
    /\ PresenceEntry(ret.first.network_intelligence, "skype").entry # EmptyDict
    /\ PresenceEntry(ret.second.network_intelligence, "skype").entry = EmptyDict
    /\ PresenceEntry(ret.second.network_intelligence, "discord").entry # EmptyDict

\* a lookup raised in this analysis
SourceFault(world) == \E source \in Sources : world[source] = "raised"

\* C13: for an input that parses, a lookup that raises does not turn the
\* result into an error: unless the compilation itself fails, the analysis
\* ends with a report.
C13_SourceFaultStillReports ==
    pc = "returned" /\ ~NoHintAccepts(args.phone_input)
        /\ SourceFault(args.world) /\ args.world.report # "raised"
    => "error" \notin DOMAIN ret /\ ReportKeys \subseteq DOMAIN ret

\* C13 witness: Numverify was asked and raised; the report has the carrier
\* the library names
C13_Witness ==
    /\ ReturnedReport
    /\ calls.invoked["numverify"] = 1
    /\ args.world.numverify = "raised"
    /\ "name" \in DOMAIN ret.carrier_info
    /\ "carrier" \notin DOMAIN ret.carrier_info


\* C14 as stated: a fault of the compilation or of the scoring returns the
\* error 'Analysis failed' and no report.
C14_InternalFaultReturnsError ==
    pc = "returned" /\ ~NoHintAccepts(args.phone_input)
        /\ (args.world.report = "raised" \/ args.world.risk_score = "raised")
    => DOMAIN ret = {"error"} /\ ret.error = "Analysis failed: exception"

\* C14 amended: a fault while the report is compiled returns the error
\* 'Analysis failed' alone; a fault inside the scoring is caught by
\* _calculate_risk_score and the report is returned with the score 50.
C14_ScoringFaultScoresFifty ==
    pc = "returned" /\ ~NoHintAccepts(args.phone_input) =>
        /\ args.world.report = "raised" =>
              DOMAIN ret = {"error"} /\ ret.error = "Analysis failed: exception"
        /\ args.world.report # "raised" /\ args.world.risk_score = "raised" =>
              /\ "error" \notin DOMAIN ret
              /\ ReportKeys \subseteq DOMAIN ret
              /\ ret.risk_score = 50

\* C14 witness: the scoring raised for a VoIP number: a report, scored 50
C14_Witness ==
    /\ ReturnedReport
    /\ args.world.risk_score = "raised"
    /\ GetOr(ret.security_analysis, "is_voip", FALSE)
    /\ ret.risk_score = 50


\* Twilio was asked and answered
TwilioAnswered ==
    /\ Config.TWILIO_ACCOUNT_SID /\ Config.TWILIO_AUTH_TOKEN
    /\ args.world.twilio # "raised"

\* Numverify was asked and answered with data
NumverifyAnswered == Config.NUMVERIFY_API_KEY /\ args.world.numverify = "valid"

\* the indicators of the messaging check, then the indicator of the VoIP check
ExpectedIndicators(world) ==
    (IF world.messaging_status = "raised" THEN <<>>
     ELSE LET online == SelectSeq(MessagingApps, LAMBDA app : world[app] = "online")
          IN  [i \in 1..Len(online) |-> online[i] \o " active"])
    \o (IF world.voip_services # "raised"
            /\ (world.skype = "online" \/ world.discord = "online")
          THEN <<"VoIP service active">> ELSE <<>>)

C16_EachSourceAtMostOnce ==
    pc = "returned" => \A source \in Sources : calls.invoked[source] <= 1


\* the carrier, security, OSINT and presence data of a report
Intelligence(report) ==
    [carrier_info |-> report.carrier_info,
     security_analysis |-> report.security_analysis,
     osint_data |-> report.osint_data,
     network_intelligence |-> report.network_intelligence]

\* presence data without the time at which the presence was checked
WithoutCheckTime(network_intelligence) ==
    [key \in DOMAIN network_intelligence \ {"check_timestamp"} |->
        network_intelligence[key]]

\* the OSINT data without the time inside its copy of the presence data
OsintWithoutCheckTime(osint_data) ==
    [key \in DOMAIN osint_data |->
        IF key = "network_intelligence"
            THEN WithoutCheckTime(osint_data[key])
            ELSE osint_data[key]]

\* the same number was analysed at two times, every source answering alike
AnalysedAtTwoTimes == BothReported /\ args.varied = "clock"

ScoreAndStatus(result) ==
    IF "error" \in DOMAIN result THEN result
    ELSE [risk_score |-> result.risk_score,
          network_status |->
              GetOr(result.network_intelligence, "network_status", "absent")]

C19_AnalysisLeavesConfig ==
    [][/\ (pc = "idle" /\ pc' = "returned") => Config' = Config
       /\ Config' # Config =>
            /\ pc = "idle" /\ pc' = "idle"
            /\ \E numverify_key, twilio_sid, twilio_token, hibp_key \in BOOLEAN :
                  Config' = save_api_config(numverify_key, twilio_sid, twilio_token,
                                            hibp_key)]_vars

\* C19 witness: an analysis that read every key and asked the three
\* providers has returned a report
C19_Witness ==
    /\ ReturnedReport
    /\ \A k \in ConfigKeys : Config[k]
    /\ calls.invoked["numverify"] = 1
    /\ calls.invoked["twilio"] = 1
    /\ calls.invoked["hibp"] = 1


\* the analysis of a number that parsed has returned
ReturnedForNumber == pc = "returned" /\ ~NoHintAccepts(args.phone_input)

\* Numverify without a key: not asked, no error logged, and the carrier
\* information is what the library gave
NumverifyEmpty ==
    ~Config.NUMVERIFY_API_KEY =>
        /\ calls.invoked["numverify"] = 0
        /\ "numverify" \notin calls.logged
        /\ ReturnedReport /\ args.world.carrier_info = "ok" =>
              /\ DOMAIN ret.carrier_info =
                    {"name", "type", "country", "mobile_country_code",
                     "mobile_network_code"}
              /\ args.world.basic_info = "ok" =>
                    /\ ret.carrier_info.name = ret.carrier
                    /\ ret.carrier_info.type = ret.line_type

\* HaveIBeenPwned without a key: not asked, no error logged, no breach
HibpEmpty ==
    ~Config.HIBP_API_KEY =>
        /\ calls.invoked["hibp"] = 0
        /\ "hibp" \notin calls.logged
        /\ ReturnedReport /\ args.world.osint_enrichment = "ok" =>
              ret.osint_data.breach_data = <<>>

\* Twilio without its pair of credentials: not asked, no error logged
TwilioNotAsked ==
    /\ calls.invoked["twilio"] = 0
    /\ "twilio" \notin calls.logged

\* a missing key does not make the result an error
MissingKeyIsNoError ==
    (\E k \in ConfigKeys : ~Config[k]) /\ args.world.report = "ok" =>
        "error" \notin DOMAIN ret

\* C20 as stated: a provider without credentials is not asked and logs no
\* error; the carrier information keeps the library's values, the reputation
\* stays 50, breach_data stays empty, and the result is no error.
C20_NoCredentialsKeepsDefaults ==
    ReturnedForNumber =>
        /\ NumverifyEmpty
        /\ HibpEmpty
        /\ MissingKeyIsNoError
        /\ ~(Config.TWILIO_ACCOUNT_SID /\ Config.TWILIO_AUTH_TOKEN) =>
              /\ TwilioNotAsked
              /\ ReturnedReport /\ args.world.security_analysis = "ok" =>
                    ret.security_analysis.reputation_score = 50

\* C20 amended: as stated, except that without Twilio the reputation is the
\* default 50 only as far as Twilio goes: the spam check still lowers it by
\* 30, to 20, when it lists the number.
C20_NoCredentialsLeavesOthersAtWork ==
    ReturnedForNumber =>
        /\ NumverifyEmpty
        /\ HibpEmpty
        /\ MissingKeyIsNoError
        /\ ~(Config.TWILIO_ACCOUNT_SID /\ Config.TWILIO_AUTH_TOKEN) =>
              /\ TwilioNotAsked
              /\ ReturnedReport /\ args.world.security_analysis = "ok" =>
                    ret.security_analysis.reputation_score =
                        (IF args.world.spam = "listed" THEN 20 ELSE 50)

\* C20 witness: no key is set, Numverify would have had data: no provider
\* was asked, and the report has the library's carrier and the reputation 50
C20_Witness ==
    /\ ReturnedReport
    /\ Config = NoKeys
    /\ args.world.numverify = "valid"
    /\ \A provider \in {"numverify", "twilio", "hibp"} : calls.invoked[provider] = 0
    /\ calls.logged = {}
    /\ ret.carrier_info.name = ret.carrier
    /\ ret.security_analysis.reputation_score = 50
    /\ ret.osint_data.breach_data = <<>>


---------------------------------------------------------------------------
(* Claims about the detection                                              *)

\* _detect_online_status has returned from its try block
Detected == pc = "returned" /\ "error" \notin DOMAIN ret

\* the messaging check completed and an app reported online
MessagingAppOnline ==
    /\ args.world.messaging_status = "ok"
    /\ \E i \in 1..Len(MessagingApps) : args.world[MessagingApps[i]] = "online"

\* C21: when a messaging app reports online, online_indicators holds an entry
\* when the status is classified and the status is 'Online' or 'Recently
\* Online'; no detection ends with 'Online via messaging'.
C21_MessagingOnlineIsIndicated ==
    pc = "returned" =>
        /\ ret.network_status # "Online via messaging"
        /\ Detected /\ MessagingAppOnline =>
              /\ Len(calls.collected.online_indicators) >= 1
              /\ ret.network_status \in {"Online", "Recently Online"}

\* C21 witness: WhatsApp alone reported online; the detection says 'Recently
\* Online' and passes 'Online via messaging' on as connection_status only
C21_Witness ==
    /\ Detected
    /\ args.world.whatsapp = "online"
    /\ ret.online_indicators = <<"whatsapp active">>
    /\ ret.connection_status = "Online via messaging"
    /\ ret.network_status = "Recently Online"


\* the social check completed and a platform reported recent activity
SocialActivityRecent ==
    /\ args.world.recent_social_activity = "ok"
    /\ \E i \in 1..Len(SocialPlatforms) :
          args.world[SocialPlatforms[i]] \in {"recent", "recent_later"}

\* the VoIP check completed and a service reported online
VoipServiceOnline ==
    /\ args.world.voip_services = "ok"
    /\ (args.world.skype = "online" \/ args.world.discord = "online")

ActiveVoipServices ==
    {service \in {"skype", "discord"} : args.world[service] = "online"}
        \cup (IF args.world.google_voice = "active" THEN {"google_voice"} ELSE {})
        \cup (IF args.world.zoom = "in_meeting" THEN {"zoom"} ELSE {})

\* how often the indicator of the VoIP method is among the indicators
VoipIndicatorCount ==
    Cardinality({i \in 1..Len(ret.online_indicators) :
                    ret.online_indicators[i] = "VoIP service active"})

\* the VoIP check completed within a detection that completed
VoipChecked == Detected /\ args.world.voip_services = "ok"

\* C23: active is true exactly when one of Skype, Google Voice, Discord and
\* Zoom reports activity, and the indicator 'VoIP service active' is then
\* among the indicators exactly once, and otherwise not at all.
C23_AnyVoipActivityIsIndicated ==
    VoipChecked =>
        /\ ret.device_activity.voip.active = (ActiveVoipServices # {})
        /\ VoipIndicatorCount = (IF ActiveVoipServices # {} THEN 1 ELSE 0)


---------------------------------------------------------------------------
(* Further claims about the scoring                                        *)

\* the score before the reputation is looked at
ScoreBeforeReputation ==
    20 + (IF SpamSignal THEN 40 ELSE 0) + (IF VoipSignal THEN 20 ELSE 0)
       + (IF BreachSignal THEN 30 ELSE 0)

\* C24: the score is never below 10: for a reputation above 70 it is the
\* score so far less 10, capped at 100, the floor at 0 changing nothing; and
\* the scoring that fails answers 50.
C24_ScoreAtLeastTen ==
    /\ pc \in {"returned", "failed"} => ret >= 10
    /\ pc = "returned" /\ ReputationSignal > 70 =>
          ret = Min(100, ScoreBeforeReputation - 10)
    /\ pc = "failed" => ret = 50

\* C24 witness: a number with reputation above 70 and no other signal was
\* scored 10
C24_Witness ==
    /\ pc = "returned"
    /\ ReputationSignal > 70
    /\ ScoreBeforeReputation = 20
    /\ ret = 10


\* a report of a number that is not VoIP and has no breach, whose security
\* analysis and scoring completed and whose spam check listed the number
SpamHitAlone ==
    /\ ReturnedReport
    /\ args.world.security_analysis = "ok"
    /\ args.world.risk_score = "ok"
    /\ args.world.spam = "listed"
    /\ ~ret.security_analysis.is_voip
    /\ GetOr(ret.osint_data, "breach_data", <<>>) = <<>>

\* C25: a spam hit alone scores 80 when Twilio gave no data, since the
\* reputation falls from 50 to 20 and adds 20 to the 40 of the hit; it scores
\* 60 when Twilio answered, the reputation falling from 60 to 30.
C25_SpamHitCountedTwiceWithoutTwilio ==
    SpamHitAlone =>
        /\ ret.security_analysis.is_spam_risk
        /\ ret.security_analysis.reputation_score = (IF TwilioAnswered THEN 30 ELSE 20)
        /\ ret.risk_score = (IF TwilioAnswered THEN 60 ELSE 80)

\* C25 witness: no Twilio credentials, the mobile number is listed as spam
\* and scored 80
C25_Witness ==
    /\ SpamHitAlone
    /\ ~Config.TWILIO_ACCOUNT_SID
    /\ calls.invoked["twilio"] = 0
    /\ ret.security_analysis.reputation_score = 20
    /\ ret.risk_score = 80


\* the text is among the risk indicators of the security analysis
Indicated(text) ==
    \E i \in 1..Len(ret.security_analysis.risk_indicators) :
        ret.security_analysis.risk_indicators[i] = text

\* C26: in every security analysis but the empty one of a failure, is_voip
\* holds exactly when 'VoIP number' is indicated, is_spam_risk exactly when
\* 'Found in spam database' is indicated, and is_spam_risk only when the spam
\* check listed the number, with or without data of Twilio.
C26_FlagsAgreeWithIndicators ==
    ReturnedReport /\ ret.security_analysis # EmptyDict =>
        /\ ret.security_analysis.is_voip = Indicated("VoIP number")
        /\ ret.security_analysis.is_spam_risk = Indicated("Found in spam database")
        /\ ret.security_analysis.is_spam_risk = (args.world.spam = "listed")

\* C26 witness: Twilio's data was merged into the analysis of the VoIP number
\* that no spam database lists
C26_Witness ==
    /\ ReturnedReport
    /\ TwilioAnswered
    /\ "spam_risk" \in DOMAIN ret.security_analysis
    /\ ret.security_analysis.is_voip
    /\ ret.security_analysis.risk_indicators = <<"VoIP number">>
    /\ ~ret.security_analysis.is_spam_risk


---------------------------------------------------------------------------
(* Claims about the browser session                                        *)

\* the run that ends in the primed state analysed a number and got a report
AnalysisSucceeded ==
    /\ args'.button = "analyze"
    /\ ret' # EmptyDict
    /\ "error" \notin DOMAIN ret'

\* C27: analysis_count equals the length of analysis_history in every state
\* of a session in single-number mode: a run whose analysis succeeds appends
\* one entry and adds one to the count, and no other run changes either.
C27_CountIsHistoryLength ==
    /\ session_state.analysis_count = Len(session_state.analysis_history)
    /\ [][/\ session_state'.analysis_count = Len(session_state'.analysis_history)
          /\ IF AnalysisSucceeded
                THEN /\ session_state'.analysis_count = session_state.analysis_count + 1
                     /\ Len(session_state'.analysis_history)
                            = Len(session_state.analysis_history) + 1
                     /\ SubSeq(session_state'.analysis_history, 1,
                               Len(session_state.analysis_history))
                            = session_state.analysis_history
                ELSE /\ session_state'.analysis_count = session_state.analysis_count
                     /\ session_state'.analysis_history = session_state.analysis_history
         ]_vars

\* C27 witness: two analyses succeeded, then a click analysed a text that is
\* no number: the count and the history stand at two
C27_Witness ==
    /\ session_state.analysis_count = 2
    /\ Len(session_state.analysis_history) = 2
    /\ args.button = "analyze"
    /\ "error" \in DOMAIN ret


\* the run that ends in the primed state analysed a text and got an error
AnalysisFailed ==
    /\ args'.button = "analyze"
    /\ "error" \in DOMAIN ret'

\* C28: a run whose analysis returns an error leaves the session state as it
\* was, so current_results is always None or a report without 'error'; a run
\* after Clear has current_results None and the history and the count as
\* before.
C28_ErrorLeavesSession ==
    /\ [](session_state.current_results = NoResults
            \/ (ReportKeys \subseteq DOMAIN session_state.current_results
                /\ "error" \notin DOMAIN session_state.current_results))
    /\ [][/\ AnalysisFailed => session_state' = session_state
          /\ args'.button = "clear" =>
                /\ session_state'.current_results = NoResults
                /\ session_state'.analysis_history = session_state.analysis_history
                /\ session_state'.analysis_count = session_state.analysis_count
         ]_vars

\* C28 witness: a report is on display and in the history, and the last run
\* analysed a text that is no number
C28_Witness ==
    /\ session_state.analysis_count = 1
    /\ session_state.current_results # NoResults
    /\ args.button = "analyze"
    /\ DOMAIN ret = {"error"}
    /\ session_state.analysis_history[1].results = session_state.current_results


\* the three keys of the monitor, as far as the session has them
MonitorKeys(session) ==
    [key \in DOMAIN session \cap {"monitoring_active", "monitored_number",
                                  "monitor_results"} |-> session[key]]

\* C29: while monitoring_active is true, monitored_number is a text that is
\* not empty and that parsed; a Start with an empty text or with an analysis
\* that returns an error leaves the three keys of the monitor as they were,
\* Stop makes monitoring_active False and monitored_number None, and Refresh
\* leaves monitoring_active and monitored_number as they were.
C29_MonitoringHasANumber ==
    /\ [](MonitoringActive(session_state) =>
            /\ session_state.monitored_number # NoMonitoredNumber
            /\ ~NoHintAccepts(session_state.monitored_number)
            /\ "monitor_results" \in DOMAIN session_state)
    /\ [][/\ args'.button = "start"
                /\ (args'.monitor_phone = <<>> \/ "error" \in DOMAIN ret') =>
                MonitorKeys(session_state') = MonitorKeys(session_state)
          /\ args'.button = "stop" =>
                /\ session_state'.monitoring_active = FALSE
                /\ session_state'.monitored_number = NoMonitoredNumber
          /\ args'.button = "refresh" =>
                /\ session_state'.monitoring_active = session_state.monitoring_active
                /\ session_state'.monitored_number = session_state.monitored_number
         ]_vars

\* C29 witness: the mobile number is being monitored, and the last Start,
\* with a text that is no number, got an error
C29_Witness ==
    /\ MonitoringActive(session_state)
    /\ session_state.monitored_number = <<"0", "1", "3">>
    /\ args.button = "start"
    /\ args.monitor_phone = <<"0", "0">>
    /\ "error" \in DOMAIN ret

===========================================================================
